---- MODULE Spec2Model ----
(***************************************************************************)
(* A model of the CodeGraph language server core: the code graph behind    *)
(* its reader/writer lock, the symbol index, the file cache, the query     *)
(* cache, the editor-event handlers of the backend, the reindexWorkspace   *)
(* command and the file watcher.                                           *)
(*                                                                         *)
(* The graph store (crate codegraph) and the language frontends (crates    *)
(* codegraph_python, ...) are external collaborators.  They are modelled   *)
(* by their interface as the handlers use it: a graph allocates node ids   *)
(* from a counter, query().property("path", p) lists the nodes whose path  *)
(* property is p, and parse_source adds one node per declared symbol, with *)
(* that path, and lists the new ids in the FileInfo it returns.            *)
(***************************************************************************)
EXTENDS Integers, Sequences, FiniteSets, TLC

VARIABLES
    graph,          \* backend.graph: the CodeGraph behind the RwLock
    lock,           \* the state of that RwLock: its writer and its readers
    symbol_index,   \* backend.symbol_index
    file_cache,     \* backend.file_cache: Url -> FileInfo
    query_cache,    \* backend.query_cache
    tasks           \* per request task: where the handler stands, its locals

vars == <<graph, lock, symbol_index, file_cache, query_cache, tasks>>

----------------------------------------------------------------------------
(* Bounds of the model *)

\* Requests the runtime executes at the same time.
MaxTasks == 2
\* Node ids one graph hands out before the model stops parsing into it.
MaxNodeId == 3

Tasks == 1..MaxTasks
NoTask == 0

----------------------------------------------------------------------------
(* Finite maps (DashMap, HashMap) *)

EmptyMap == [k \in {} |-> 0]

MapPut(m, k, v) == [x \in (DOMAIN m) \cup {k} |-> IF x = k THEN v ELSE m[x]]

MapDel(m, k) == [x \in (DOMAIN m) \ {k} |-> m[x]]

Range(s) == {s[i] : i \in DOMAIN s}

\* map.retain(|_, v| { v.retain(|&id| id != node_id); !v.is_empty() })
RetainWithout(m, node_id) ==
    LET kept(k) == SelectSeq(m[k], LAMBDA id : id # node_id)
    IN [k \in {x \in DOMAIN m : kept(x) # <<>>} |-> kept(k)]

----------------------------------------------------------------------------
(* Paths, documents and source texts *)

\* The documents of the workspace: a URI and the file path it converts to.
Paths == {"a.py", "b.rs", "n.txt"}

\* A URI that uri.to_file_path() rejects.
InvalidUri == "untitled:1"

Uris == Paths \cup {InvalidUri}

\* path.extension(); a URI that is no file path has none.
Extension(p) ==
    CASE p = "a.py" -> "py" [] p = "b.rs" -> "rs" [] p = "n.txt" -> "txt"
      [] p = "c.ts" -> "ts" [] p = "d.tsx" -> "tsx" [] p = "e.js" -> "js"
      [] p = "f.jsx" -> "jsx" [] p = "g.go" -> "go" [] OTHER -> ""

NoParser == "none"

parser_for_path(p) ==
    CASE Extension(p) = "py" -> "python"
      [] Extension(p) = "rs" -> "rust"
      [] Extension(p) \in {"ts", "tsx", "js", "jsx"} -> "typescript"
      [] Extension(p) = "go" -> "go"
      [] OTHER -> NoParser

can_parse(p) == parser_for_path(p) # NoParser

\* The extensions each frontend says it parses (file_extensions), and its
\* can_parse(path).
file_extensions(frontend) ==
    CASE frontend = "python" -> {"py"}
      [] frontend = "rust" -> {"rs"}
      [] frontend = "typescript" -> {"ts", "tsx", "js", "jsx"}
      [] frontend = "go" -> {"go"}
      [] OTHER -> {}

frontend_can_parse(frontend, p) == Extension(p) \in file_extensions(frontend)

NoLanguage == "none"

\* The name of the frontend that serves the path, for every path.
language_of_frontend(p) == IF parser_for_path(p) = NoParser THEN NoLanguage ELSE parser_for_path(p)

\* ParserRegistry::language_for_path(path)
language_for_path(p) ==
    IF frontend_can_parse("python", p) THEN "python"
    ELSE IF frontend_can_parse("rust", p) THEN "rust"
    ELSE IF frontend_can_parse("typescript", p)
         THEN (CASE Extension(p) \in {"ts", "tsx"} -> "typescript"
                 [] Extension(p) \in {"js", "jsx"} -> "javascript"
                 [] OTHER -> "typescript")
    ELSE IF frontend_can_parse("go", p) THEN "go"
    ELSE NoLanguage

\* ParserRegistry::get_parser(language), of a language identifier in lower case
get_parser(language) ==
    CASE language = "python" -> "python"
      [] language = "rust" -> "rust"
      [] language \in {"typescript", "javascript", "typescriptreact", "javascriptreact"} -> "typescript"
      [] language = "go" -> "go"
      [] OTHER -> NoParser

ParsePaths == {p \in Paths : can_parse(p)}

\* A declared symbol as a frontend reports it: 1-indexed lines, 0-indexed columns.
SymFoo == [name |-> "foo", start_line |-> 2, start_col |-> 4, end_line |-> 3, end_col |-> 8]
SymC == [name |-> "C", start_line |-> 1, start_col |-> 0, end_line |-> 5, end_col |-> 0]

\* An edge of the graph: (source_id, target_id, edge_type)
Edge(source, target, edge_type) ==
    [source |-> source, target |-> target, edge_type |-> edge_type]

\* A source text is what a frontend finds in it: the declarations, grouped as in
\* FileInfo, and the edges between them, which name a declaration by its place
\* among the declarations; or a syntax error.
TextFoo ==
    [parses |-> TRUE, functions |-> <<SymFoo>>, classes |-> <<>>, traits |-> <<>>,
     edges |-> <<>>]
TextFooC ==
    [parses |-> TRUE, functions |-> <<SymFoo>>, classes |-> <<SymC>>, traits |-> <<>>,
     edges |-> <<>>]
BadText ==
    [parses |-> FALSE, functions |-> <<>>, classes |-> <<>>, traits |-> <<>>,
     edges |-> <<>>]

Texts == {TextFoo, TextFooC, BadText}

EmptyFileInfo == [functions |-> <<>>, classes |-> <<>>, traits |-> <<>>]

----------------------------------------------------------------------------
(* The graph store *)

NewGraph == [nodes |-> EmptyMap, edges |-> <<>>, next_id |-> 1]

\* graph.query().property("path", p).execute()
NodesOfPath(g, p) == {id \in DOMAIN g.nodes : g.nodes[id].path = p}

\* for node_id in nodes { graph.delete_node(node_id) }: the store drops the
\* edges of a node with the node.
DeleteNodes(g, ids) ==
    [g EXCEPT !.nodes = [id \in (DOMAIN g.nodes) \ ids |-> g.nodes[id]],
              !.edges = SelectSeq(@, LAMBDA e : e.source \notin ids /\ e.target \notin ids)]

MakeNode(sym, type, p) ==
    [path |-> p, name |-> sym.name, node_type |-> type,
     start_line |-> sym.start_line, start_col |-> sym.start_col,
     end_line |-> sym.end_line, end_col |-> sym.end_col]

\* The declarations of a text in the order the frontend adds them, with their types.
Decls(text) ==
    [i \in 1..Len(text.functions) |-> <<text.functions[i], "Function">>]
    \o [i \in 1..Len(text.classes) |-> <<text.classes[i], "Class">>]
    \o [i \in 1..Len(text.traits) |-> <<text.traits[i], "Interface">>]

\* parser.parse_source(text, path, &mut graph): Err on a syntax error, else one
\* new node per declaration, the edges between the new nodes and the FileInfo
\* listing the new ids.
parse_source(text, p, g) ==
    IF ~text.parses
    THEN [ok |-> FALSE, graph |-> g, file_info |-> EmptyFileInfo]
    ELSE LET d == Decls(text)
             first == g.next_id
             nf == Len(text.functions)
             nc == Len(text.classes)
             nt == Len(text.traits)
         IN [ok |-> TRUE,
             graph |-> [nodes |-> [id \in (DOMAIN g.nodes) \cup (first..(first + Len(d) - 1)) |->
                                      IF id \in DOMAIN g.nodes /\ id < first
                                      THEN g.nodes[id]
                                      ELSE MakeNode(d[id - first + 1][1], d[id - first + 1][2], p)],
                        edges |-> g.edges \o
                                  [k \in 1..Len(text.edges) |->
                                      Edge(first + text.edges[k].source - 1,
                                           first + text.edges[k].target - 1,
                                           text.edges[k].edge_type)],
                        next_id |-> first + Len(d)],
             file_info |-> [functions |-> [i \in 1..nf |-> first + i - 1],
                            classes |-> [i \in 1..nc |-> first + nf + i - 1],
                            traits |-> [i \in 1..nt |-> first + nf + nc + i - 1]]]

\* The model parses into a graph only while it has ids left.
HasRoom(g, text) == g.next_id + Len(Decls(text)) - 1 <= MaxNodeId

----------------------------------------------------------------------------
(* The symbol index *)

NewIndex ==
    [by_name |-> EmptyMap, by_file |-> EmptyMap, by_type |-> EmptyMap, by_position |-> EmptyMap]

\* extract_range(&node.properties)
extract_range(node) ==
    [start_line |-> node.start_line, start_col |-> node.start_col,
     end_line |-> node.end_line, end_col |-> node.end_col]

\* map.entry(key).or_default().push(id)
PushEntry(m, k, id) == MapPut(m, k, (IF k \in DOMAIN m THEN m[k] ELSE <<>>) \o <<id>>)

\* a.0.start_line.cmp(&b.0.start_line).then(a.0.start_col.cmp(&b.0.start_col)) is Greater
PositionAfter(a, b) ==
    \/ a[1].start_line > b[1].start_line
    \/ a[1].start_line = b[1].start_line /\ a[1].start_col > b[1].start_col

\* One entry put into a sorted list, behind the entries that do not come after it.
RECURSIVE InsertSorted(_, _)
InsertSorted(sorted, e) ==
    IF sorted = <<>> THEN <<e>>
    ELSE IF PositionAfter(Head(sorted), e) THEN <<e>> \o sorted
         ELSE <<Head(sorted)>> \o InsertSorted(Tail(sorted), e)

\* The positions in the order the loop pushed them.
AsPushed(positions) == positions

\* positions.sort_by(...): a stable sort by (start_line, start_col).
RECURSIVE SortPositions(_)
SortPositions(positions) ==
    IF positions = <<>> THEN <<>>
    ELSE InsertSorted(SortPositions(SubSeq(positions, 1, Len(positions) - 1)),
                      positions[Len(positions)])

all_node_ids(file_info) == file_info.functions \o file_info.classes \o file_info.traits

\* The loop of add_file over the ids still to index.
RECURSIVE IndexNodes(_, _, _)
IndexNodes(acc, ids, g) ==
    IF ids = <<>> THEN acc
    ELSE LET node_id == Head(ids)
         IN IF node_id \notin DOMAIN g.nodes
            THEN IndexNodes(acc, Tail(ids), g)
            ELSE LET node == g.nodes[node_id]
                 IN IndexNodes(
                        [by_name |-> PushEntry(acc.by_name, node.name, node_id),
                         by_type |-> PushEntry(acc.by_type, node.node_type, node_id),
                         file_nodes |-> Append(acc.file_nodes, node_id),
                         positions |-> Append(acc.positions, <<extract_range(node), node_id>>)],
                        Tail(ids), g)

\* SymbolIndex::add_file(path, file_info, graph)
add_file(idx, path, file_info, g) ==
    LET acc == IndexNodes([by_name |-> idx.by_name, by_type |-> idx.by_type,
                           file_nodes |-> <<>>, positions |-> <<>>],
                          all_node_ids(file_info), g)
    IN [by_name |-> acc.by_name,
        by_type |-> acc.by_type,
        by_file |-> MapPut(idx.by_file, path, acc.file_nodes),
        by_position |-> MapPut(idx.by_position, path, SortPositions(acc.positions))]

\* The loop of remove_file over the ids the file listed.
RECURSIVE PurgeIds(_, _)
PurgeIds(acc, ids) ==
    IF ids = <<>> THEN acc
    ELSE PurgeIds([by_name |-> RetainWithout(acc.by_name, Head(ids)),
                   by_type |-> RetainWithout(acc.by_type, Head(ids))],
                  Tail(ids))

\* SymbolIndex::remove_file(path)
remove_file(idx, path) ==
    LET acc == IF path \in DOMAIN idx.by_file
               THEN PurgeIds([by_name |-> idx.by_name, by_type |-> idx.by_type],
                             idx.by_file[path])
               ELSE [by_name |-> idx.by_name, by_type |-> idx.by_type]
    IN [by_name |-> acc.by_name,
        by_type |-> acc.by_type,
        by_file |-> MapDel(idx.by_file, path),
        by_position |-> MapDel(idx.by_position, path)]

\* SymbolIndex::clear()
clear(idx) == NewIndex

----------------------------------------------------------------------------
(* The query cache *)

\* QueryCache::new(capacity): the capacity the model builds the cache with.
CacheCapacity == 2

\* NonZeroUsize::new(capacity).unwrap_or(100)
FallbackCapacity == 100

nonzero_capacity(capacity) == IF capacity = 0 THEN FallbackCapacity ELSE capacity

\* NonZeroUsize::new(capacity.get() / 2).unwrap_or(50)
FallbackDependencyCapacity == 50

dependency_capacity(capacity) ==
    IF nonzero_capacity(capacity) \div 2 = 0 THEN FallbackDependencyCapacity
    ELSE nonzero_capacity(capacity) \div 2

\* QueryCache::new(capacity).  An LruCache is the list of its (key, value)
\* entries, the most recently used first; capacity is the cap of the call
\* hierarchies and of the AI contexts, dependency_capacity that of the
\* dependency graphs.
QueryCacheNew(capacity) ==
    [definitions |-> EmptyMap, references |-> EmptyMap,
     call_hierarchies |-> <<>>, dependency_graphs |-> <<>>, ai_contexts |-> <<>>,
     capacity |-> nonzero_capacity(capacity),
     dependency_capacity |-> dependency_capacity(capacity)]

NewCache == QueryCacheNew(CacheCapacity)

\* A put that drops the entry used last when the cache is over its cap.
LruPutDropsNewest(lru, cap, key, value) ==
    LET rest == SelectSeq(lru, LAMBDA e : e[1] # key)
        all == <<(<<key, value>>)>> \o rest
    IN IF Len(all) > cap THEN SubSeq(all, 2, cap + 1) ELSE all

\* LruCache::put(key, value) with capacity cap
LruPut(lru, cap, key, value) ==
    LET rest == SelectSeq(lru, LAMBDA e : e[1] # key)
        all == <<(<<key, value>>)>> \o rest
    IN IF Len(all) > cap THEN SubSeq(all, 1, cap) ELSE all

\* LruCache::get(key): the entry becomes the most recently used.
LruGet(lru, key) ==
    SelectSeq(lru, LAMBDA e : e[1] = key) \o SelectSeq(lru, LAMBDA e : e[1] # key)

\* QueryCache::set_definition(path, line, character, node_id)
set_definition(qc, path, line, character, node_id) ==
    [qc EXCEPT !.definitions = MapPut(@, <<path, line, character>>, node_id)]

\* QueryCache::set_references(node_id, locations)
set_references(qc, node_id, locations) ==
    [qc EXCEPT !.references = MapPut(@, node_id, locations)]

\* QueryCache::get_call_hierarchy(node_id): what it leaves of the cache
get_call_hierarchy(qc, node_id) ==
    [qc EXCEPT !.call_hierarchies = LruGet(@, node_id)]

\* QueryCache::set_call_hierarchy(node_id, cache)
set_call_hierarchy(qc, node_id, cache) ==
    [qc EXCEPT !.call_hierarchies = LruPut(@, qc.capacity, node_id, cache)]

\* QueryCache::get_dependency_graph(path, depth): what it leaves of the cache
get_dependency_graph(qc, path, depth) ==
    [qc EXCEPT !.dependency_graphs = LruGet(@, <<path, depth>>)]

\* QueryCache::set_dependency_graph(path, depth, cache)
set_dependency_graph(qc, path, depth, cache) ==
    [qc EXCEPT !.dependency_graphs = LruPut(@, qc.dependency_capacity, <<path, depth>>, cache)]

\* QueryCache::get_ai_context(node_id, context_type): what it leaves of the cache
get_ai_context(qc, node_id, context_type) ==
    [qc EXCEPT !.ai_contexts = LruGet(@, <<node_id, context_type>>)]

\* QueryCache::set_ai_context(node_id, context_type, cache)
set_ai_context(qc, node_id, context_type, cache) ==
    [qc EXCEPT !.ai_contexts = LruPut(@, qc.capacity, <<node_id, context_type>>, cache)]

\* An invalidation that drops the definitions of every path.
invalidate_every_path(qc, path) ==
    [definitions |-> EmptyMap,
     references |-> EmptyMap,
     call_hierarchies |-> <<>>,
     dependency_graphs |-> <<>>,
     ai_contexts |-> qc.ai_contexts,
     capacity |-> qc.capacity,
     dependency_capacity |-> qc.dependency_capacity]

\* QueryCache::invalidate_file(path)
invalidate_file(qc, path) ==
    [definitions |-> [k \in {x \in DOMAIN qc.definitions : x[1] # path} |-> qc.definitions[k]],
     references |-> EmptyMap,
     call_hierarchies |-> <<>>,
     dependency_graphs |-> <<>>,
     ai_contexts |-> qc.ai_contexts,
     capacity |-> qc.capacity,
     dependency_capacity |-> qc.dependency_capacity]

----------------------------------------------------------------------------
(* The graph lock and the request tasks *)

\* queue lists the acquisitions that wait, the first to be served first.
FreeLock == [writer |-> NoTask, readers |-> {}, queue |-> <<>>]

\* graph.write().await returns
CanWrite == lock.writer = NoTask /\ lock.readers = {}

\* graph.read().await returns
CanRead == lock.writer = NoTask

NoUri == "-"

\* The locals of handle_get_ai_context: params.max_tokens (an Option, here a
\* sequence of at most one number), the node at the position, the TokenBudget,
\* the symbols of the graph the handler has still to consider and the related
\* symbols it has taken.
NoAiLocals ==
    [max_tokens |-> <<>>, node_id |-> 0, budget |-> [total |-> 0, used |-> 0],
     candidates |-> <<>>, related_symbols |-> <<>>]

\* A task: the handler it runs (op), where it stands (pc) and its locals.  A task
\* that has returned keeps what it was asked and what its parse returned until
\* the runtime gives it the next request.
IdleTask ==
    [pc |-> "idle", op |-> "none", uri |-> NoUri, text |-> BadText, ok |-> FALSE,
     file_info |-> EmptyFileInfo, ai |-> NoAiLocals]

\* The task that FileWatcher::new spawns, beside the request tasks.
Watcher == 0

\* No event: what the watcher task holds between two events.
NoEvent == [kind |-> "Other", paths |-> <<>>]

\* The watcher task: where it stands in its loop (pc), the channel from the
\* notify callback, the event it handles with the paths still to go, and the
\* messages it has logged.  sent and handled are the history of the events
\* sent and of the paths gone through, which the program does not keep.
IdleWatcher ==
    [pc |-> "recv", channel |-> <<>>, event |-> NoEvent, paths |-> <<>>, log |-> <<>>,
     sent |-> <<>>, handled |-> <<>>]

Returned(t) == tasks[t].pc \in {"idle", "done"}

Running(t) == ~Returned(t)

\* The runtime gives a request to the first task that is not running a handler.
Free(t) == Returned(t) /\ \A u \in Tasks : u < t => Running(u)

Begin(op, pc, uri, text) == [IdleTask EXCEPT !.op = op, !.pc = pc, !.uri = uri, !.text = text]

Done(task, ok) == [task EXCEPT !.pc = "done", !.ok = ok, !.text = BadText]

\* What remove_file_from_graph leaves of the graph, the query cache and the index.
remove_file_from_graph(g, qc, idx, path) ==
    [graph |-> DeleteNodes(g, NodesOfPath(g, path)),
     query_cache |-> invalidate_file(qc, path),
     symbol_index |-> remove_file(idx, path)]

Init ==
    /\ graph = NewGraph
    /\ lock = FreeLock
    /\ symbol_index = NewIndex
    /\ file_cache = EmptyMap
    /\ query_cache = NewCache
    /\ tasks = [t \in Tasks \cup {Watcher} |-> IF t = Watcher THEN IdleWatcher ELSE IdleTask]

----------------------------------------------------------------------------
(* did_open *)

\* The URI is no file path, or no frontend parses the path: the handler returns.
DidOpenIgnored(t, uri) ==
    /\ Free(t)
    /\ uri = InvalidUri \/ ~can_parse(uri)
    /\ UNCHANGED vars

\* A did_open that parses under a write guard it gives back before it indexes.
DidOpenParseUnguarded(t, uri, text) ==
    /\ Free(t)
    /\ uri # InvalidUri /\ can_parse(uri)
    /\ CanWrite
    /\ HasRoom(graph, text)
    /\ LET r == parse_source(text, uri, graph)
       IN /\ graph' = r.graph
          /\ tasks' = [tasks EXCEPT ![t] =
                 [Begin("did_open", IF r.ok THEN "open_index" ELSE "open_log", uri, text)
                     EXCEPT !.ok = r.ok, !.file_info = r.file_info]]
    /\ UNCHANGED <<lock, symbol_index, file_cache, query_cache>>

\* graph.write().await, then parse_source into the graph.
DidOpenParse(t, uri, text) ==
    /\ Free(t)
    /\ uri # InvalidUri /\ can_parse(uri)
    /\ CanWrite
    /\ HasRoom(graph, text)
    /\ LET r == parse_source(text, uri, graph)
       IN /\ graph' = r.graph
          /\ tasks' = [tasks EXCEPT ![t] =
                 [Begin("did_open", IF r.ok THEN "open_index" ELSE "open_log", uri, text)
                     EXCEPT !.ok = r.ok, !.file_info = r.file_info]]
    /\ lock' = [lock EXCEPT !.writer = t]
    /\ UNCHANGED <<symbol_index, file_cache, query_cache>>

\* symbol_index.add_file and file_cache.insert, under the write guard.
DidOpenIndex(t) ==
    /\ tasks[t].pc = "open_index"
    /\ symbol_index' = add_file(symbol_index, tasks[t].uri, tasks[t].file_info, graph)
    /\ file_cache' = MapPut(file_cache, tasks[t].uri, tasks[t].file_info)
    /\ tasks' = [tasks EXCEPT ![t].pc = "open_log"]
    /\ UNCHANGED <<graph, lock, query_cache>>

\* client.log_message(...).await returns; the write guard drops at the end of the block.
DidOpenLogged(t) ==
    /\ tasks[t].pc = "open_log"
    /\ lock' = [lock EXCEPT !.writer = NoTask]
    /\ tasks' = [tasks EXCEPT ![t] = Done(@, @.ok)]
    /\ UNCHANGED <<graph, symbol_index, file_cache, query_cache>>

----------------------------------------------------------------------------
(* did_change and did_save *)

\* The first critical section of did_change and did_save: remove_file_from_graph
\* takes the write lock, purges the file and gives the lock back on return.
PurgeStep(t, op, uri, text) ==
    /\ Free(t)
    /\ uri # InvalidUri /\ can_parse(uri)
    /\ CanWrite
    /\ LET r == remove_file_from_graph(graph, query_cache, symbol_index, uri)
       IN /\ graph' = r.graph
          /\ query_cache' = r.query_cache
          /\ symbol_index' = r.symbol_index
    /\ tasks' = [tasks EXCEPT ![t] = Begin(op, "reparse", uri, text)]
    /\ UNCHANGED <<lock, file_cache>>

\* The second critical section: graph.write().await, then parse_source.  A parse
\* error ends the handler and drops the guard.
ReparseStep(t, op) ==
    /\ tasks[t].pc = "reparse" /\ tasks[t].op = op
    /\ CanWrite
    /\ HasRoom(graph, tasks[t].text)
    /\ LET r == parse_source(tasks[t].text, tasks[t].uri, graph)
       IN /\ graph' = r.graph
          /\ IF r.ok
             THEN /\ lock' = [lock EXCEPT !.writer = t]
                  /\ tasks' = [tasks EXCEPT ![t].pc = "index", ![t].ok = TRUE,
                                            ![t].file_info = r.file_info]
             ELSE /\ lock' = lock
                  /\ tasks' = [tasks EXCEPT ![t] = Done(@, FALSE)]
    /\ UNCHANGED <<symbol_index, file_cache, query_cache>>

\* symbol_index.add_file and file_cache.insert; the guard drops at the end of the block.
IndexStep(t, op) ==
    /\ tasks[t].pc = "index" /\ tasks[t].op = op
    /\ symbol_index' = add_file(symbol_index, tasks[t].uri, tasks[t].file_info, graph)
    /\ file_cache' = MapPut(file_cache, tasks[t].uri, tasks[t].file_info)
    /\ lock' = [lock EXCEPT !.writer = NoTask]
    /\ tasks' = [tasks EXCEPT ![t] = Done(@, TRUE)]
    /\ UNCHANGED <<graph, query_cache>>

\* did_change: no file path, no content change or no frontend.
DidChangeIgnored(t, uri, has_change) ==
    /\ Free(t)
    /\ uri = InvalidUri \/ ~can_parse(uri) \/ ~has_change
    /\ UNCHANGED vars

DidChangePurge(t, uri, text) == PurgeStep(t, "did_change", uri, text)

DidChangeParse(t) == ReparseStep(t, "did_change")

DidChangeIndex(t) == IndexStep(t, "did_change")

\* did_save: no file path, no frontend, or a save without text.
DidSaveIgnored(t, uri, has_text) ==
    /\ Free(t)
    /\ uri = InvalidUri \/ ~can_parse(uri) \/ ~has_text
    /\ UNCHANGED vars

DidSavePurge(t, uri, text) == PurgeStep(t, "did_save", uri, text)

DidSaveParse(t) == ReparseStep(t, "did_save")

DidSaveIndex(t) == IndexStep(t, "did_save")

----------------------------------------------------------------------------
(* did_close *)

\* A close that also takes the file out of the symbol index.
DidCloseUnindexes(t, uri) ==
    /\ Free(t)
    /\ file_cache' = MapDel(file_cache, uri)
    /\ symbol_index' = remove_file(symbol_index, uri)
    /\ tasks' = [tasks EXCEPT ![t] = Done(Begin("did_close", "done", uri, BadText), TRUE)]
    /\ UNCHANGED <<graph, lock, query_cache>>

\* self.file_cache.remove(&params.text_document.uri)
DidClose(t, uri) ==
    /\ Free(t)
    /\ file_cache' = MapDel(file_cache, uri)
    /\ tasks' = [tasks EXCEPT ![t] = Done(Begin("did_close", "done", uri, BadText), TRUE)]
    /\ UNCHANGED <<graph, lock, symbol_index, query_cache>>

----------------------------------------------------------------------------
(* execute_command: codegraph.reindexWorkspace *)

\* { let mut graph = self.graph.write().await; *graph = CodeGraph::in_memory() }
ReindexReset(t) ==
    /\ Free(t)
    /\ CanWrite
    /\ graph' = NewGraph
    /\ tasks' = [tasks EXCEPT ![t] = Begin("reindex", "reindex_index", NoUri, BadText)]
    /\ UNCHANGED <<lock, symbol_index, file_cache, query_cache>>

\* self.symbol_index.clear()
ReindexClearIndex(t) ==
    /\ tasks[t].pc = "reindex_index"
    /\ symbol_index' = clear(symbol_index)
    /\ tasks' = [tasks EXCEPT ![t].pc = "reindex_cache"]
    /\ UNCHANGED <<graph, lock, file_cache, query_cache>>

\* self.file_cache.clear(), the log message and the answer
ReindexClearCache(t) ==
    /\ tasks[t].pc = "reindex_cache"
    /\ file_cache' = EmptyMap
    /\ tasks' = [tasks EXCEPT ![t] = Done(@, TRUE)]
    /\ UNCHANGED <<graph, lock, symbol_index, query_cache>>

----------------------------------------------------------------------------
(* Queries: a handler that reads the graph under shared access *)

\* let graph = self.graph.read().await
QueryBegin(t) ==
    /\ Free(t)
    /\ CanRead
    /\ lock' = [lock EXCEPT !.readers = @ \cup {t}]
    /\ tasks' = [tasks EXCEPT ![t] = Begin("query", "query", NoUri, BadText)]
    /\ UNCHANGED <<graph, symbol_index, file_cache, query_cache>>

\* The handler returns and the read guard drops.
QueryEnd(t) ==
    /\ tasks[t].pc = "query"
    /\ lock' = [lock EXCEPT !.readers = @ \ {t}]
    /\ tasks' = [tasks EXCEPT ![t] = IdleTask]
    /\ UNCHANGED <<graph, symbol_index, file_cache, query_cache>>

----------------------------------------------------------------------------
(* The file watcher: one task that handles the events one after the other *)

\* remove_file_nodes(&mut graph, path)
remove_file_nodes(g, path) == DeleteNodes(g, NodesOfPath(g, path))

\* handle_file_change: under one write guard, remove the nodes and parse the
\* content read from disk.  A parse error leaves the nodes removed.
WatcherChange(path, content) ==
    /\ can_parse(path)
    /\ CanWrite
    /\ HasRoom(graph, content)
    /\ graph' = parse_source(content, path, remove_file_nodes(graph, path)).graph
    /\ UNCHANGED <<lock, symbol_index, file_cache, query_cache, tasks>>

\* handle_file_remove
WatcherRemove(path) ==
    /\ CanWrite
    /\ graph' = remove_file_nodes(graph, path)
    /\ UNCHANGED <<lock, symbol_index, file_cache, query_cache, tasks>>

----------------------------------------------------------------------------
(* The file watcher, event by event and path by path *)

\* The events the model sends altogether.
MaxEvents == 2

\* What notify reports: the kind of the event and its paths.
Events ==
    {[kind |-> kind, paths |-> paths] :
        kind \in {"Modify", "Remove", "Other"},
        paths \in {<<"a.py">>, <<"n.txt", "a.py">>, <<"a.py", "b.rs">>}}

\* tokio::fs::read_to_string(path): an error, or the content on disk.
NoRead == [ok |-> FALSE, content |-> BadText]

Reads == {NoRead} \cup {[ok |-> TRUE, content |-> content] : content \in {TextFoo, BadText}}

\* The callback of the notify watcher: tx.blocking_send(event)
WatcherNotify(event) ==
    /\ Len(tasks[Watcher].sent) < MaxEvents
    /\ tasks' = [tasks EXCEPT ![Watcher].channel = Append(@, event),
                              ![Watcher].sent = Append(@, event)]
    /\ UNCHANGED <<graph, lock, symbol_index, file_cache, query_cache>>

\* while let Some(event) = rx.recv().await, and the match on event.kind: an
\* event of another kind is dropped.
WatcherRecv ==
    /\ tasks[Watcher].pc = "recv"
    /\ tasks[Watcher].channel # <<>>
    /\ LET event == Head(tasks[Watcher].channel)
       IN tasks' = [tasks EXCEPT ![Watcher].channel = Tail(@),
                                 ![Watcher].event = event,
                                 ![Watcher].paths = IF event.kind = "Other" THEN <<>> ELSE event.paths,
                                 ![Watcher].pc = IF event.kind = "Other" THEN "recv" ELSE "paths"]
    /\ UNCHANGED <<graph, lock, symbol_index, file_cache, query_cache>>

\* A failure stops the loop over the paths and the loop over the events.
stop_on_error(w, outcome) ==
    [w EXCEPT !.paths = Tail(@),
              !.pc = IF outcome = "failed" THEN "stopped"
                     ELSE IF Tail(w.paths) = <<>> THEN "recv" ELSE "paths",
              !.log = IF outcome = "failed" THEN Append(@, Head(w.paths)) ELSE @,
              !.handled = Append(@, <<Head(w.paths), outcome>>)]

\* The end of the body of for path in event.paths: an Err is logged with
\* client.log_message, and the loop goes on with the next path, or the task
\* with the next event.
next_path(w, outcome) ==
    [w EXCEPT !.paths = Tail(@),
              !.pc = IF Tail(w.paths) = <<>> THEN "recv" ELSE "paths",
              !.log = IF outcome = "failed" THEN Append(@, Head(w.paths)) ELSE @,
              !.handled = Append(@, <<Head(w.paths), outcome>>)]

\* One path of a Create or Modify event: a path without frontend is skipped;
\* handle_file_change reads the file, takes the write lock, removes the nodes
\* of the path and parses the content.
HandleFileChange(read) ==
    /\ tasks[Watcher].pc = "paths" /\ tasks[Watcher].event.kind = "Modify"
    /\ LET path == Head(tasks[Watcher].paths)
       IN IF ~can_parse(path)
          THEN /\ read = NoRead
               /\ graph' = graph
               /\ tasks' = [tasks EXCEPT ![Watcher] = next_path(@, "skipped")]
          ELSE IF ~read.ok
               THEN /\ graph' = graph
                    /\ tasks' = [tasks EXCEPT ![Watcher] = next_path(@, "failed")]
               ELSE /\ CanWrite
                    /\ LET r == parse_source(read.content, path, remove_file_nodes(graph, path))
                       IN /\ graph' = r.graph
                          /\ tasks' = [tasks EXCEPT ![Watcher] =
                                          next_path(@, IF r.ok THEN "done" ELSE "failed")]
    /\ UNCHANGED <<lock, symbol_index, file_cache, query_cache>>

\* One path of a Remove event: handle_file_remove
HandleFileRemove ==
    /\ tasks[Watcher].pc = "paths" /\ tasks[Watcher].event.kind = "Remove"
    /\ CanWrite
    /\ graph' = remove_file_nodes(graph, Head(tasks[Watcher].paths))
    /\ tasks' = [tasks EXCEPT ![Watcher] = next_path(@, "done")]
    /\ UNCHANGED <<lock, symbol_index, file_cache, query_cache>>

----------------------------------------------------------------------------
(* Cache stores: a query stores its result under shared access to the graph *)

\* set_definition for the position where node_id starts
SetDefinition(node_id) ==
    /\ CanRead
    /\ node_id \in DOMAIN graph.nodes
    /\ query_cache' = set_definition(query_cache, graph.nodes[node_id].path,
                                     graph.nodes[node_id].start_line,
                                     graph.nodes[node_id].start_col, node_id)
    /\ UNCHANGED <<graph, lock, symbol_index, file_cache, tasks>>

\* set_references with the location of the node itself
SetReferences(node_id) ==
    /\ CanRead
    /\ node_id \in DOMAIN graph.nodes
    /\ query_cache' = set_references(query_cache, node_id, <<graph.nodes[node_id].path>>)
    /\ UNCHANGED <<graph, lock, symbol_index, file_cache, tasks>>

\* set_call_hierarchy of a node without callers or callees
SetCallHierarchy(node_id) ==
    /\ CanRead
    /\ node_id \in DOMAIN graph.nodes
    /\ query_cache' = set_call_hierarchy(query_cache, node_id,
                                         [incoming |-> <<>>, outgoing |-> <<>>])
    /\ UNCHANGED <<graph, lock, symbol_index, file_cache, tasks>>

\* set_dependency_graph of a file at depth 1: the file's node, no edges
SetDependencyGraph(node_id) ==
    /\ CanRead
    /\ node_id \in DOMAIN graph.nodes
    /\ query_cache' = set_dependency_graph(query_cache, graph.nodes[node_id].path, 1,
                                           [nodes |-> <<node_id>>, edges |-> <<>>])
    /\ UNCHANGED <<graph, lock, symbol_index, file_cache, tasks>>

\* set_ai_context of a node without related symbols
SetAiContext(node_id, context_type) ==
    /\ CanRead
    /\ node_id \in DOMAIN graph.nodes
    /\ query_cache' = set_ai_context(query_cache, node_id, context_type,
                                     [primary_code |-> graph.nodes[node_id].name,
                                      related_symbols |-> <<>>])
    /\ UNCHANGED <<graph, lock, symbol_index, file_cache, tasks>>

ContextTypes == {"explain"}

\* The model stores into the query cache only while it holds few entries.
MaxCacheEntries == 2

CacheSize(qc) ==
    Cardinality(DOMAIN qc.definitions) + Cardinality(DOMAIN qc.references)
        + Len(qc.call_hierarchies) + Len(qc.dependency_graphs) + Len(qc.ai_contexts)

CacheStores ==
    /\ CacheSize(query_cache) < MaxCacheEntries
    /\ \/ \E node_id \in 1..MaxNodeId : SetDefinition(node_id)
       \/ \E node_id \in 1..MaxNodeId : SetReferences(node_id)
       \/ \E node_id \in 1..MaxNodeId : SetCallHierarchy(node_id)
       \/ \E node_id \in 1..MaxNodeId : SetDependencyGraph(node_id)
       \/ \E node_id \in 1..MaxNodeId, context_type \in ContextTypes :
              SetAiContext(node_id, context_type)

----------------------------------------------------------------------------
(* The specifications *)

\* The requests of tasks T about the documents U.
Requests(T, U) ==
    \/ \E t \in T, uri \in U : DidOpenIgnored(t, uri)
    \/ \E t \in T, uri \in U, text \in Texts : DidOpenParse(t, uri, text)
    \/ \E t \in T : DidOpenIndex(t)
    \/ \E t \in T : DidOpenLogged(t)
    \/ \E t \in T, uri \in U, has_change \in BOOLEAN : DidChangeIgnored(t, uri, has_change)
    \/ \E t \in T, uri \in U, text \in Texts : DidChangePurge(t, uri, text)
    \/ \E t \in T : DidChangeParse(t)
    \/ \E t \in T : DidChangeIndex(t)
    \/ \E t \in T, uri \in U, has_text \in BOOLEAN : DidSaveIgnored(t, uri, has_text)
    \/ \E t \in T, uri \in U, text \in Texts : DidSavePurge(t, uri, text)
    \/ \E t \in T : DidSaveParse(t)
    \/ \E t \in T : DidSaveIndex(t)
    \/ \E t \in T, uri \in U : DidClose(t, uri)
    \/ \E t \in T : ReindexReset(t)
    \/ \E t \in T : ReindexClearIndex(t)
    \/ \E t \in T : ReindexClearCache(t)
    \/ \E t \in T : QueryBegin(t)
    \/ \E t \in T : QueryEnd(t)

\* The file system events about the paths W.
WatcherEvents(W) ==
    \/ \E path \in W, content \in Texts : WatcherChange(path, content)
    \/ \E path \in W : WatcherRemove(path)

\* Spec: the requests about one source file, handled concurrently.
OneFile == {"a.py", "n.txt", InvalidUri}

Next == Requests(Tasks, OneFile)

Spec == Init /\ [][Next]_vars

\* SpecWatch: the requests about one source file, handled one at a time, and the
\* file watcher's events, which arrive at any time.
NextWatch == Requests({1}, OneFile) \/ WatcherEvents(OneFile \cap Paths)

SpecWatch == Init /\ [][NextWatch]_vars

\* SpecSeq: the requests about every document, handled one at a time.
NextSeq == Requests({1}, Uris)

SpecSeq == Init /\ [][NextSeq]_vars

\* SpecCache: the requests about one source file, handled one at a time, the file
\* watcher's events and the cache stores.
NextCache ==
    \/ Requests({1}, OneFile)
    \/ WatcherEvents(OneFile \cap Paths)
    \/ CacheStores

SpecCache == Init /\ [][NextCache]_vars

\* did_open, did_change, did_save and did_close of tasks T about the documents U
\* with the texts X.
Edits(T, U, X) ==
    \/ \E t \in T, uri \in U : DidOpenIgnored(t, uri)
    \/ \E t \in T, uri \in U, text \in X : DidOpenParse(t, uri, text)
    \/ \E t \in T : DidOpenIndex(t)
    \/ \E t \in T : DidOpenLogged(t)
    \/ \E t \in T, uri \in U, has_change \in BOOLEAN : DidChangeIgnored(t, uri, has_change)
    \/ \E t \in T, uri \in U, text \in X : DidChangePurge(t, uri, text)
    \/ \E t \in T : DidChangeParse(t)
    \/ \E t \in T : DidChangeIndex(t)
    \/ \E t \in T, uri \in U, has_text \in BOOLEAN : DidSaveIgnored(t, uri, has_text)
    \/ \E t \in T, uri \in U, text \in X : DidSavePurge(t, uri, text)
    \/ \E t \in T : DidSaveParse(t)
    \/ \E t \in T : DidSaveIndex(t)
    \/ \E t \in T, uri \in U : DidClose(t, uri)

\* SpecEdit: did_open, did_change, did_save and did_close about one source file,
\* handled one at a time, and nothing else.
NextEdit == Edits({1}, OneFile, Texts)

SpecEdit == Init /\ [][NextEdit]_vars

\* SpecQuery: the deliveries of one source file and the queries, handled concurrently.
NextQuery ==
    \/ \E t \in Tasks, text \in Texts : DidOpenParse(t, "a.py", text)
    \/ \E t \in Tasks : DidOpenIndex(t)
    \/ \E t \in Tasks : DidOpenLogged(t)
    \/ \E t \in Tasks, text \in Texts : DidChangePurge(t, "a.py", text)
    \/ \E t \in Tasks : DidChangeParse(t)
    \/ \E t \in Tasks : DidChangeIndex(t)
    \/ \E t \in Tasks, text \in Texts : DidSavePurge(t, "a.py", text)
    \/ \E t \in Tasks : DidSaveParse(t)
    \/ \E t \in Tasks : DidSaveIndex(t)
    \/ \E t \in Tasks : QueryBegin(t)
    \/ \E t \in Tasks : QueryEnd(t)

SpecQuery == Init /\ [][NextQuery]_vars

----------------------------------------------------------------------------
(* What the claims speak of *)

\* The node ids a FileInfo lists for the index.
FileInfoIds(file_info) == Range(all_node_ids(file_info))

\* The handlers that deliver a source text.
Delivers(t) == tasks[t].op \in {"did_open", "did_change", "did_save"}

\* did_change or did_save stands between its purge and its insertion.
BetweenPurgeAndInsert(t) == tasks[t].pc = "reparse"

\* Task u holds the graph lock, shared or exclusive.
HoldsLock(u) == lock.writer = u \/ u \in lock.readers

----------------------------------------------------------------------------
(* C1 *)

\* A query holds shared access and sees the file of t's did_change or did_save
\* with the nodes of its last parse (the file cache still lists them) purged and
\* the nodes of the new text not yet inserted.
GapObserved(t) ==
    /\ BetweenPurgeAndInsert(t)
    /\ tasks[t].text.parses
    /\ \E u \in Tasks \ {t} : u \in lock.readers
    /\ tasks[t].uri \in DOMAIN file_cache
    /\ FileInfoIds(file_cache[tasks[t].uri]) # {}
    /\ NodesOfPath(graph, tasks[t].uri) = {}

\* C1: in did_change and did_save the purge of the old nodes and the insertion of
\* the new ones happen inside one exclusive hold of the graph lock, so no query
\* ever holds the lock between the two and observes the file with its old nodes
\* removed and its new nodes not yet inserted.
C1_PurgeAndInsertInOneHold == \A t \in Tasks : ~GapObserved(t)

----------------------------------------------------------------------------
(* C2 *)

\* Two did_change handlers for the same document ran at the same time and both
\* have returned.  (A task that returned is given the next request first, so two
\* returned tasks ran overlapping handlers.)
BothChanged(t1, t2) ==
    /\ t1 # t2
    /\ tasks[t1].pc = "done" /\ tasks[t1].op = "did_change"
    /\ tasks[t2].pc = "done" /\ tasks[t2].op = "did_change"
    /\ tasks[t1].uri = tasks[t2].uri
    /\ tasks[t1].ok /\ tasks[t2].ok

\* The graph nodes of t's document and by_file are exactly the nodes of t's parse.
ParseWon(t) ==
    /\ NodesOfPath(graph, tasks[t].uri) = FileInfoIds(tasks[t].file_info)
    /\ tasks[t].uri \in DOMAIN symbol_index.by_file
    /\ symbol_index.by_file[tasks[t].uri] = all_node_ids(tasks[t].file_info)

\* C2: once two concurrent did_change events for the same path have both
\* completed, the graph nodes with that path are exactly the nodes of one of the
\* two parses, never the union, and by_file lists exactly those.
C2_OneParseWins ==
    \A t1, t2 \in Tasks : BothChanged(t1, t2) => ParseWon(t1) \/ ParseWon(t2)

----------------------------------------------------------------------------
(* C3 *)

Quiescent == \A t \in Tasks : Returned(t)

\* Every id of by_file[p] is a node of the graph whose path is p.
IndexedNodesExist ==
    \A p \in DOMAIN symbol_index.by_file :
        \A id \in Range(symbol_index.by_file[p]) :
            id \in DOMAIN graph.nodes /\ graph.nodes[id].path = p

\* C3: after any sequence of editor events, watcher events and reindexWorkspace,
\* once every started operation has completed, every id in by_file[p] exists in
\* the graph and that node's path is p.
C3_IndexedNodesExist == Quiescent => IndexedNodesExist

----------------------------------------------------------------------------
(* C4 *)

\* Task t's did_change or did_save returns from a successful parse in this step.
ReindexedFile(t) ==
    /\ tasks[t].pc = "index"
    /\ tasks'[t].pc = "done"

\* C4: when a did_change or did_save for a path returns after a successful parse,
\* the ids of the graph nodes with that path are the ids listed in by_file for it.
C4_GraphAgreesWithByFile ==
    [][\A t \in Tasks : ReindexedFile(t) =>
          /\ tasks[t].uri \in DOMAIN symbol_index'.by_file
          /\ NodesOfPath(graph', tasks[t].uri) =
                 Range(symbol_index'.by_file[tasks[t].uri])]_vars

----------------------------------------------------------------------------
(* C5 *)

\* Task t's did_open, did_change or did_save returns from a successful parse in
\* this step.
DeliveredFile(t) ==
    /\ tasks[t].pc \in {"open_log", "index"}
    /\ tasks'[t].pc = "done"
    /\ tasks'[t].ok

\* C5: when did_open, did_change or did_save for a path returns after a
\* successful parse, the graph nodes with that path are exactly the nodes that
\* parse produced: nothing of an earlier parse of the path is left.
C5_OnlyTheLastParse ==
    [][\A t \in Tasks : DeliveredFile(t) =>
          NodesOfPath(graph', tasks[t].uri) = FileInfoIds(tasks'[t].file_info)]_vars

----------------------------------------------------------------------------
(* C6 *)

\* The server's stores, as one value.
State ==
    [graph |-> graph, symbol_index |-> symbol_index,
     file_cache |-> file_cache, query_cache |-> query_cache]

\* did_open run alone, from its first line to its return.
did_open(s, uri, text) ==
    IF uri = InvalidUri \/ ~can_parse(uri)
    THEN s
    ELSE LET r == parse_source(text, uri, s.graph)
         IN IF r.ok
            THEN [s EXCEPT !.graph = r.graph,
                           !.symbol_index = add_file(s.symbol_index, uri, r.file_info, r.graph),
                           !.file_cache = MapPut(s.file_cache, uri, r.file_info)]
            ELSE [s EXCEPT !.graph = r.graph]

\* A change that parses and indexes without the purge.
did_change_unpurged(s, uri, text) == did_open(s, uri, text)

\* did_change run alone: remove_file_from_graph, then parse and index.
did_change(s, uri, text) ==
    IF uri = InvalidUri \/ ~can_parse(uri)
    THEN s
    ELSE LET purged == remove_file_from_graph(s.graph, s.query_cache, s.symbol_index, uri)
             r == parse_source(text, uri, purged.graph)
         IN IF r.ok
            THEN [graph |-> r.graph,
                  symbol_index |-> add_file(purged.symbol_index, uri, r.file_info, r.graph),
                  file_cache |-> MapPut(s.file_cache, uri, r.file_info),
                  query_cache |-> purged.query_cache]
            ELSE [graph |-> r.graph,
                  symbol_index |-> purged.symbol_index,
                  file_cache |-> s.file_cache,
                  query_cache |-> purged.query_cache]

\* did_save with the text included runs the statements of did_change.
did_save(s, uri, text) == did_change(s, uri, text)

Deliveries == {"did_open", "did_change", "did_save"}

Deliver(op, s, uri, text) ==
    CASE op = "did_open" -> did_open(s, uri, text)
      [] op = "did_change" -> did_change(s, uri, text)
      [] op = "did_save" -> did_save(s, uri, text)

\* What an id stands for, whatever number it is: its node, or nothing.
Dangling == [name |-> "", node_type |-> "", path |-> "",
             start_line |-> 0, start_col |-> 0, end_line |-> 0, end_col |-> 0]

NodeOf(g, id) == IF id \in DOMAIN g.nodes THEN g.nodes[id] ELSE Dangling

NodesOf(g, ids) == [i \in DOMAIN ids |-> NodeOf(g, ids[i])]

\* The stores up to a renaming of the node ids: the nodes with how often each
\* occurs, and the four index maps with each id replaced by its node.
View(s) ==
    [nodes |-> {<<s.graph.nodes[i],
                  Cardinality({j \in DOMAIN s.graph.nodes : s.graph.nodes[j] = s.graph.nodes[i]})>> :
                    i \in DOMAIN s.graph.nodes},
     by_name |-> [k \in DOMAIN s.symbol_index.by_name |->
                     NodesOf(s.graph, s.symbol_index.by_name[k])],
     by_file |-> [k \in DOMAIN s.symbol_index.by_file |->
                     NodesOf(s.graph, s.symbol_index.by_file[k])],
     by_type |-> [k \in DOMAIN s.symbol_index.by_type |->
                     NodesOf(s.graph, s.symbol_index.by_type[k])],
     by_position |-> [k \in DOMAIN s.symbol_index.by_position |->
                         [i \in DOMAIN s.symbol_index.by_position[k] |->
                             <<s.symbol_index.by_position[k][i][1],
                               NodeOf(s.graph, s.symbol_index.by_position[k][i][2])>>]]]

\* C6: delivering the same text for the same path twice in a row, by any of
\* did_open, did_change and did_save, leaves the nodes and the four index maps
\* as delivering it once does, up to a renaming of the node ids.
C6_SameTextTwice ==
    Quiescent =>
        \A uri \in Uris, text \in Texts, first \in Deliveries, second \in Deliveries :
            LET once == Deliver(first, State, uri, text)
            IN View(Deliver(second, once, uri, text)) = View(once)

\* The same, of did_change and did_save alone.
C6_SameTextTwiceChanged ==
    Quiescent =>
        \A uri \in Uris, text \in Texts, first \in {"did_change", "did_save"},
           second \in {"did_change", "did_save"} :
            LET once == Deliver(first, State, uri, text)
            IN View(Deliver(second, once, uri, text)) = View(once)

----------------------------------------------------------------------------
(* C7 *)

\* The ids listed in by_position for a path.
PositionIds(idx, path) ==
    IF path \in DOMAIN idx.by_position
    THEN {e[2] : e \in Range(idx.by_position[path])}
    ELSE {}

FileIds(idx, path) ==
    IF path \in DOMAIN idx.by_file THEN Range(idx.by_file[path]) ELSE {}

\* Task t's did_open, did_change or did_save has started and not returned.
InProgress(t) == Running(t) /\ Delivers(t)

\* The nodes t's parse has inserted so far.
Inserted(t) == FileInfoIds(tasks[t].file_info)

\* C7: a query that holds shared access to the graph while a did_open,
\* did_change or did_save for a path is in progress sees none of the nodes that
\* parse inserts or all of them, and when it sees them by_file and by_position
\* of the path list them.
C7_QuerySeesNoneOrAll ==
    \A q, t \in Tasks :
        q \in lock.readers /\ InProgress(t) =>
            \/ tasks[t].pc = "reparse" /\ Inserted(t) = {}
            \/ /\ tasks[t].pc \in {"open_index", "open_log", "index"}
               /\ Inserted(t) # {}
               /\ Inserted(t) \subseteq DOMAIN graph.nodes
               /\ Inserted(t) \subseteq FileIds(symbol_index, tasks[t].uri)
               /\ Inserted(t) \subseteq PositionIds(symbol_index, tasks[t].uri)

\* A query holds shared access while a did_change or did_save with a text that
\* parses is in progress.
C7_QueryDuringDelivery ==
    \E q, t \in Tasks :
        /\ q \in lock.readers
        /\ InProgress(t)
        /\ tasks[t].text.parses

----------------------------------------------------------------------------
(* C8 *)

\* The node ids of a cached call hierarchy, dependency graph and AI context.
HierarchyIds(c) == {e[1] : e \in Range(c.incoming) \cup Range(c.outgoing)}

DependencyIds(c) == Range(c.nodes) \cup UNION {{e[1], e[2]} : e \in Range(c.edges)}

ContextIds(c) == {e[1] : e \in Range(c.related_symbols)}

\* Every node id a cache entry refers to, in its key or in its value.
CachedIds(qc) ==
    UNION {Range(qc.definitions),
           DOMAIN qc.references,
           {e[1] : e \in Range(qc.call_hierarchies)},
           UNION {HierarchyIds(e[2]) : e \in Range(qc.call_hierarchies)},
           UNION {DependencyIds(e[2]) : e \in Range(qc.dependency_graphs)},
           {e[1][1] : e \in Range(qc.ai_contexts)},
           UNION {ContextIds(e[2]) : e \in Range(qc.ai_contexts)}}

\* C8: after any sequence of cache stores, editor events, watcher events and
\* reindexWorkspace, once every started operation has completed, every cache
\* entry refers only to node ids that exist in the graph.
C8_CachedNodesExist == Quiescent => CachedIds(query_cache) \subseteq DOMAIN graph.nodes

----------------------------------------------------------------------------
(* C9 *)

\* Task t's reindexWorkspace returns in this step.
ReindexCompletes(t) ==
    /\ tasks[t].pc = "reindex_cache"
    /\ tasks'[t].pc = "done"

\* C9: when reindexWorkspace has completed, the four index maps and the file
\* cache are empty and the graph has no nodes.
C9_ReindexLeavesNothing ==
    [][\A t \in Tasks : ReindexCompletes(t) =>
          /\ symbol_index' = NewIndex
          /\ file_cache' = EmptyMap
          /\ DOMAIN graph'.nodes = {}]_vars

----------------------------------------------------------------------------
(* C10 *)

\* Task t's did_change or did_save runs remove_file_from_graph, and so
\* remove_file, in this step.
RemovesFile(t) ==
    /\ Returned(t)
    /\ tasks'[t].pc = "reparse"

\* Every id listed under some key of an index map from keys to id lists.
ListedIds(m) == UNION {Range(m[k]) : k \in DOMAIN m}

\* C10: after remove_file(p), whatever add_file and remove_file calls came
\* before, by_file and by_position have no key p, and by_name and by_type list
\* no id of a node whose path is p.
C10_RemoveFileForgetsPath ==
    [][\A t \in Tasks : RemovesFile(t) =>
          /\ tasks'[t].uri \notin DOMAIN symbol_index'.by_file
          /\ tasks'[t].uri \notin DOMAIN symbol_index'.by_position
          /\ NodesOfPath(graph, tasks'[t].uri)
                 \cap (ListedIds(symbol_index'.by_name) \cup ListedIds(symbol_index'.by_type)) = {}]_vars

----------------------------------------------------------------------------
(* C11 *)

\* Every id of every by_name bucket is a node of the graph that bears the
\* bucket's name.
NamedNodesExist ==
    \A name \in DOMAIN symbol_index.by_name :
        \A id \in Range(symbol_index.by_name[name]) :
            id \in DOMAIN graph.nodes /\ graph.nodes[id].name = name

\* C11: after any sequence of did_open, did_change, did_save and did_close, every
\* id in a by_name bucket is a node that exists in the graph and whose name is
\* the bucket's key.
C11_NamedNodesExist == Quiescent => NamedNodesExist

----------------------------------------------------------------------------
(* C12 *)

\* The watcher handles, in this step and without error, a create or modify
\* event for the path, whose file holds the content.
WatcherReparsed(path, content) == content.parses /\ WatcherChange(path, content)

\* C12: after the watcher has handled a create or modify event for a parseable
\* path without error, by_file and by_position of the path list exactly the
\* nodes that the re-parse produced.
C12_WatcherReindexes ==
    [][\A path \in ParsePaths, content \in Texts :
          WatcherReparsed(path, content) =>
              /\ FileIds(symbol_index', path) = NodesOfPath(graph', path)
              /\ PositionIds(symbol_index', path) = NodesOfPath(graph', path)]_vars

----------------------------------------------------------------------------
(* Position lookups *)

\* Texts whose declarations nest, tie in size, end left of their start column,
\* or start on line 0.
SymM == [name |-> "m", start_line |-> 2, start_col |-> 4, end_line |-> 3, end_col |-> 1]
SymF == [name |-> "f", start_line |-> 2, start_col |-> 2, end_line |-> 3, end_col |-> 4]
SymK == [name |-> "K", start_line |-> 1, start_col |-> 5, end_line |-> 2, end_col |-> 7]
SymZ == [name |-> "z", start_line |-> 0, start_col |-> 0, end_line |-> 0, end_col |-> 3]

TextMC ==
    [parses |-> TRUE, functions |-> <<SymM>>, classes |-> <<SymC>>, traits |-> <<>>,
     edges |-> <<>>]
TextFK ==
    [parses |-> TRUE, functions |-> <<SymF>>, classes |-> <<SymK>>, traits |-> <<>>,
     edges |-> <<>>]
TextZ ==
    [parses |-> TRUE, functions |-> <<SymZ>>, classes |-> <<>>, traits |-> <<>>,
     edges |-> <<>>]

LookupTexts == {TextFooC, TextMC, TextFK, TextZ, BadText}

\* The positions an editor asks about: 0-indexed lines and characters.
LspLines == 0 .. 5
LspCharacters == 0 .. 8

\* IndexRange::contains(line, col)
contains(range, line, col) ==
    IF line < range.start_line \/ line > range.end_line THEN FALSE
    ELSE IF line = range.start_line /\ col < range.start_col THEN FALSE
    ELSE IF line = range.end_line /\ col > range.end_col THEN FALSE
    ELSE TRUE

\* The modulus of u32 arithmetic, scaled down to the integers of the model
\* checker: it exceeds every size a range of the model has, as 2^32 does.
WrapModulus == 2 ^ 20

\* range.end_col - range.start_col in u32: below zero it panics in a build with
\* overflow checks and wraps in a build without.
ColumnSpan(range, overflow_checks) ==
    IF range.end_col >= range.start_col
    THEN [panics |-> FALSE, value |-> range.end_col - range.start_col]
    ELSE IF overflow_checks
         THEN [panics |-> TRUE, value |-> 0]
         ELSE [panics |-> FALSE, value |-> range.end_col - range.start_col + WrapModulus]

\* ((range.end_line - range.start_line) as usize) * 10000 + (range.end_col - range.start_col) as usize
RangeSize(range, overflow_checks) ==
    (range.end_line - range.start_line) * 10000 + ColumnSpan(range, overflow_checks).value

\* The answers of a lookup: a node, nothing, or a panic of the handler.
Found(id) == [kind |-> "some", id |-> id]
NotFound == [kind |-> "none", id |-> 0]
Panicked == [kind |-> "panic", id |-> 0]

\* The loop of find_at_position over the positions still to visit; best is the
\* (size, id) kept so far.
RECURSIVE ScanPositions(_, _, _, _, _)
ScanPositions(positions, line, col, best, overflow_checks) ==
    IF positions = <<>> THEN (IF best.kind = "some" THEN Found(best.id) ELSE NotFound)
    ELSE LET range == Head(positions)[1]
             node_id == Head(positions)[2]
         IN IF ~contains(range, line, col)
            THEN ScanPositions(Tail(positions), line, col, best, overflow_checks)
            ELSE IF ColumnSpan(range, overflow_checks).panics THEN Panicked
            ELSE LET size == RangeSize(range, overflow_checks)
                 IN IF best.kind = "none" \/ size < best.size
                    THEN ScanPositions(Tail(positions), line, col,
                                       [kind |-> "some", size |-> size, id |-> node_id],
                                       overflow_checks)
                    ELSE ScanPositions(Tail(positions), line, col, best, overflow_checks)

\* SymbolIndex::find_at_position(path, line, col), lines 1-indexed
find_at_position(idx, path, line, col, overflow_checks) ==
    IF path \notin DOMAIN idx.by_position THEN NotFound
    ELSE ScanPositions(idx.by_position[path], line, col,
                       [kind |-> "none", size |-> 0, id |-> 0], overflow_checks)

\* The nodes the fallback scan of find_node_at_position accepts.
ScanMatches(g, path, line, col) ==
    {id \in NodesOfPath(g, path) : contains(extract_range(g.nodes[id]), line, col)}

\* CodeGraphBackend::find_node_at_position(graph, path, position): the answers it
\* can give.  The fallback returns the first match in the order the graph query
\* lists the nodes of the path, which the graph store chooses.
find_node_at_position(s, path, position, overflow_checks) ==
    LET line == position.line + 1
        col == position.character
        hit == find_at_position(s.symbol_index, path, line, col, overflow_checks)
    IN IF hit.kind # "none" THEN {hit}
       ELSE IF ScanMatches(s.graph, path, line, col) = {} THEN {NotFound}
       ELSE {Found(id) : id \in ScanMatches(s.graph, path, line, col)}

\* SpecLookup: the edits of one source file, handled one at a time, and the file
\* watcher's events, with the texts of the lookups.
NextLookup ==
    \/ Edits({1}, OneFile, LookupTexts)
    \/ \E content \in LookupTexts : WatcherChange("a.py", content)
    \/ WatcherRemove("a.py")

SpecLookup == Init /\ [][NextLookup]_vars

----------------------------------------------------------------------------
(* Errors and answers of the query handlers *)

LspErrors ==
    {"SymbolNotFound", "FileNotIndexed", "Parser", "Graph", "InvalidUri",
     "UnsupportedLanguage", "Cache", "Io", "NodeNotFound"}

\* A mapping that sends Parser and Graph to invalid-params and
\* UnsupportedLanguage to internal-error.
ParserAndGraphInvalid(err) ==
    IF err \in {"UnsupportedLanguage", "Cache", "Io"} THEN "InternalError" ELSE "InvalidParams"

\* impl From<LspError> for tower_lsp::jsonrpc::Error: the code of the protocol error
error_code(err) ==
    CASE err = "SymbolNotFound" -> "InvalidParams"
      [] err = "FileNotIndexed" -> "InvalidParams"
      [] err = "InvalidUri" -> "InvalidParams"
      [] err = "UnsupportedLanguage" -> "InvalidParams"
      [] err = "NodeNotFound" -> "InvalidParams"
      [] OTHER -> "InternalError"

\* What a handler answers: Ok(Some(value)), Ok(None), Err(error with a code), or
\* it panics.
Answer(value) == [kind |-> "result", code |-> "", value |-> value]
NoResult == [kind |-> "none", code |-> "", value |-> <<>>]
ErrorAnswer(code) == [kind |-> "error", code |-> code, value |-> <<>>]
PanicAnswer == [kind |-> "panic", code |-> "", value |-> <<>>]

\* A conversion to editor lines that leaves the line as it is.
LineUnchanged(line) == line

\* line.saturating_sub(1) in u32
to_lsp_line(line) == IF line = 0 THEN 0 ELSE line - 1

\* IndexRange::to_lsp_range
to_lsp_range(range) ==
    [start |-> [line |-> to_lsp_line(range.start_line), character |-> range.start_col],
     end |-> [line |-> to_lsp_line(range.end_line), character |-> range.end_col]]

\* (position.line + 1): the editor's line taken back to an internal line
to_internal_line(line) == line + 1

to_internal_range(lsp_range) ==
    [start_line |-> to_internal_line(lsp_range.start.line),
     start_col |-> lsp_range.start.character,
     end_line |-> to_internal_line(lsp_range.end.line),
     end_col |-> lsp_range.end.character]

\* CodeGraphBackend::node_to_location(graph, node_id)
node_to_location(g, node_id) ==
    IF node_id \notin DOMAIN g.nodes
    THEN [ok |-> FALSE, err |-> "Graph", location |-> <<>>]
    ELSE [ok |-> TRUE, err |-> "",
          location |-> <<[uri |-> g.nodes[node_id].path,
                          range |-> to_lsp_range(extract_range(g.nodes[node_id]))]>>]

\* iter.take(n)
take(seq, n) == SubSeq(seq, 1, IF Len(seq) < n THEN Len(seq) ELSE n)

\* The edges whatever their type.
AnyType(edges, edge_type) == edges

\* filter(|(_, _, t)| *t == edge_type)
OfType(edges, edge_type) == SelectSeq(edges, LAMBDA e : e.edge_type = edge_type)

Sources(edges) == [i \in DOMAIN edges |-> edges[i].source]

Targets(edges) == [i \in DOMAIN edges |-> edges[i].target]

\* The elements of a sequence, each once, in the order of its first place.
RECURSIVE Distinct(_)
Distinct(seq) ==
    IF seq = <<>> THEN <<>>
    ELSE LET front == Distinct(SubSeq(seq, 1, Len(seq) - 1))
             last == seq[Len(seq)]
         IN IF last \in Range(front) THEN front ELSE Append(front, last)

\* The neighbors of one direction alone: Both is taken for Outgoing.
one_way_neighbors(g, node_id, direction) ==
    IF direction = "Incoming"
    THEN Distinct(Sources(SelectSeq(g.edges, LAMBDA e : e.target = node_id)))
    ELSE Distinct(Targets(SelectSeq(g.edges, LAMBDA e : e.source = node_id)))

\* graph.get_neighbors(node_id, direction): the nodes at the other end of the
\* edges of the node, each once; for Both, the ends of the outgoing and of the
\* incoming edges.
get_neighbors(g, node_id, direction) ==
    LET outgoing == Targets(SelectSeq(g.edges, LAMBDA e : e.source = node_id))
        incoming == Sources(SelectSeq(g.edges, LAMBDA e : e.target = node_id))
    IN CASE direction = "Outgoing" -> Distinct(outgoing)
         [] direction = "Incoming" -> Distinct(incoming)
         [] OTHER -> Distinct(outgoing \o incoming)

\* graph.get_edges_between(source, target)
get_edges_between(g, source, target) ==
    SelectSeq(g.edges, LAMBDA e : e.source = source /\ e.target = target)

\* The loop of get_connected_edges over the neighbors: the edges from the node
\* to the neighbor, those from the neighbor to the node, or for Both the ones
\* and then the others.
RECURSIVE EdgesOfNeighbors(_, _, _, _)
EdgesOfNeighbors(g, node_id, neighbors, direction) ==
    IF neighbors = <<>> THEN <<>>
    ELSE (CASE direction = "Outgoing" -> get_edges_between(g, node_id, Head(neighbors))
            [] direction = "Incoming" -> get_edges_between(g, Head(neighbors), node_id)
            [] OTHER -> get_edges_between(g, node_id, Head(neighbors))
                            \o get_edges_between(g, Head(neighbors), node_id))
             \o EdgesOfNeighbors(g, node_id, Tail(neighbors), direction)

\* get_connected_edges(graph, node_id, direction): nothing for a missing node,
\* else the edges between the node and each of its neighbors.
get_connected_edges(g, node_id, direction) ==
    IF node_id \notin DOMAIN g.nodes THEN <<>>
    ELSE EdgesOfNeighbors(g, node_id, get_neighbors(g, node_id, direction), direction)

\* find_definition_for_reference(graph, ref_node_id): the target of the first
\* Calls, References or Imports edge.
find_definition_for_reference(g, ref_node_id) ==
    LET edges == SelectSeq(get_connected_edges(g, ref_node_id, "Outgoing"),
                           LAMBDA e : e.edge_type \in {"Calls", "References", "Imports"})
    IN IF edges = <<>> THEN NotFound ELSE Found(edges[1].target)

\* goto_definition, from the node the lookup found
GotoDefinitionOf(s, hit) ==
    CASE hit.kind = "panic" -> PanicAnswer
      [] hit.kind = "none" -> NoResult
      [] OTHER ->
            LET def == find_definition_for_reference(s.graph, hit.id)
                loc == node_to_location(s.graph, IF def.kind = "some" THEN def.id ELSE hit.id)
            IN IF loc.ok THEN Answer(loc.location) ELSE ErrorAnswer(error_code(loc.err))

goto_definition(s, uri, position, overflow_checks) ==
    IF uri = InvalidUri THEN {ErrorAnswer("InvalidParams")}
    ELSE {GotoDefinitionOf(s, hit) :
              hit \in find_node_at_position(s, uri, position, overflow_checks)}

\* An answer with the declaration alone, without the incoming edges.
DeclarationOf(s, hit, include_declaration) ==
    CASE hit.kind = "panic" -> PanicAnswer
      [] hit.kind = "none" -> NoResult
      [] OTHER ->
            LET def == find_definition_for_reference(s.graph, hit.id)
                loc == node_to_location(s.graph, IF def.kind = "some" THEN def.id ELSE hit.id)
            IN IF include_declaration /\ loc.ok THEN Answer(loc.location) ELSE NoResult

\* references, from the node the lookup found
ReferencesOf(s, hit, include_declaration) ==
    CASE hit.kind = "panic" -> PanicAnswer
      [] hit.kind = "none" -> NoResult
      [] OTHER ->
            LET def == find_definition_for_reference(s.graph, hit.id)
                def_node_id == IF def.kind = "some" THEN def.id ELSE hit.id
                loc == node_to_location(s.graph, def_node_id)
                sources == SelectSeq(
                    Sources(get_connected_edges(s.graph, def_node_id, "Incoming")),
                    LAMBDA id : node_to_location(s.graph, id).ok)
                locations ==
                    (IF include_declaration /\ loc.ok THEN loc.location ELSE <<>>)
                        \o [i \in DOMAIN sources |-> node_to_location(s.graph, sources[i]).location[1]]
            IN IF locations = <<>> THEN NoResult ELSE Answer(locations)

references(s, uri, position, include_declaration, overflow_checks) ==
    IF uri = InvalidUri THEN {ErrorAnswer("InvalidParams")}
    ELSE {ReferencesOf(s, hit, include_declaration) :
              hit \in find_node_at_position(s, uri, position, overflow_checks)}

\* hover, from the node the lookup found
HoverOf(s, hit) ==
    CASE hit.kind = "panic" -> PanicAnswer
      [] hit.kind = "none" -> NoResult
      [] hit.id \notin DOMAIN s.graph.nodes -> ErrorAnswer("InternalError")
      [] OTHER -> Answer(<<[name |-> s.graph.nodes[hit.id].name,
                            kind |-> s.graph.nodes[hit.id].node_type,
                            path |-> s.graph.nodes[hit.id].path]>>)

hover(s, uri, position, overflow_checks) ==
    IF uri = InvalidUri THEN {ErrorAnswer("InvalidParams")}
    ELSE {HoverOf(s, hit) : hit \in find_node_at_position(s, uri, position, overflow_checks)}

\* document_symbol: the symbols of by_file[path] that are nodes with a location
document_symbol(s, uri) ==
    IF uri = InvalidUri THEN ErrorAnswer("InvalidParams")
    ELSE LET node_ids == IF uri \in DOMAIN s.symbol_index.by_file
                         THEN s.symbol_index.by_file[uri] ELSE <<>>
             present == SelectSeq(node_ids, LAMBDA id : id \in DOMAIN s.graph.nodes)
             symbols == [i \in DOMAIN present |->
                            [name |-> s.graph.nodes[present[i]].name,
                             kind |-> s.graph.nodes[present[i]].node_type,
                             location |-> node_to_location(s.graph, present[i]).location]]
         IN IF symbols = <<>> THEN NoResult ELSE Answer(symbols)

\* The characters of a decimal number.
Digits == <<"0", "1", "2", "3", "4", "5", "6", "7", "8", "9">>

\* A string of the last decimal digit alone.
last_digit(node_id) == <<Digits[(node_id % 10) + 1]>>

\* node_id.to_string(): the decimal digits, as a sequence of characters
RECURSIVE to_string(_)
to_string(node_id) ==
    IF node_id < 10 THEN <<Digits[node_id + 1]>>
    ELSE Append(to_string(node_id \div 10), Digits[(node_id % 10) + 1])

\* The value of the digits read so far.
RECURSIVE DigitsValue(_)
DigitsValue(str) ==
    IF str = <<>> THEN 0
    ELSE 10 * DigitsValue(SubSeq(str, 1, Len(str) - 1))
             + (CHOOSE d \in 0..9 : Digits[d + 1] = str[Len(str)])

\* node_id_str.parse::<NodeId>(): an error for an empty string and for a
\* character that is no digit
parse(str) ==
    IF str = <<>> \/ \E i \in DOMAIN str : str[i] \notin Range(Digits)
    THEN [ok |-> FALSE, node_id |-> 0]
    ELSE [ok |-> TRUE, node_id |-> DigitsValue(str)]

\* Some(serde_json::json!({ "nodeId": node_id.to_string() }))
node_id_data(node_id) == <<[nodeId |-> to_string(node_id)]>>

\* extract_node_id_from_item(item): the node id, or an error for an item
\* without data or with a nodeId that is no number
extract_node_id_from_item(item) ==
    IF item.data = <<>> THEN [ok |-> FALSE, node_id |-> 0]
    ELSE parse(item.data[1].nodeId)

\* prepare_call_hierarchy, from the node the lookup found
PrepareCallHierarchyOf(s, hit) ==
    CASE hit.kind = "panic" -> PanicAnswer
      [] hit.kind = "none" -> NoResult
      [] hit.id \notin DOMAIN s.graph.nodes -> ErrorAnswer("InternalError")
      [] s.graph.nodes[hit.id].node_type # "Function" -> NoResult
      [] OTHER -> Answer(<<[name |-> s.graph.nodes[hit.id].name,
                            location |-> node_to_location(s.graph, hit.id).location,
                            data |-> node_id_data(hit.id)]>>)

prepare_call_hierarchy(s, uri, position, overflow_checks) ==
    IF uri = InvalidUri THEN {ErrorAnswer("InvalidParams")}
    ELSE {PrepareCallHierarchyOf(s, hit) :
              hit \in find_node_at_position(s, uri, position, overflow_checks)}

\* The item of a call hierarchy for a node of the graph.
CallHierarchyItem(g, node_id) ==
    [name |-> g.nodes[node_id].name,
     location |-> node_to_location(g, node_id).location,
     data |-> node_id_data(node_id)]

\* The calls a handler pushes for the other ends of the edges: one per Calls
\* edge whose other end is a node with a location.
CallsOf(g, ends) ==
    LET present == SelectSeq(ends, LAMBDA id : node_to_location(g, id).ok)
    IN [i \in DOMAIN present |->
           [item |-> CallHierarchyItem(g, present[i]),
            from_ranges |-> <<node_to_location(g, present[i]).location[1].range>>]]

\* incoming_calls and outgoing_calls of the item: an error if the item carries
\* no node id
incoming_calls(s, item) ==
    LET r == extract_node_id_from_item(item)
        calls == CallsOf(s.graph,
                         Sources(OfType(get_connected_edges(s.graph, r.node_id, "Incoming"),
                                        "Calls")))
    IN IF ~r.ok THEN ErrorAnswer("InvalidParams")
       ELSE IF calls = <<>> THEN NoResult ELSE Answer(calls)

outgoing_calls(s, item) ==
    LET r == extract_node_id_from_item(item)
        calls == CallsOf(s.graph,
                         Targets(OfType(get_connected_edges(s.graph, r.node_id, "Outgoing"),
                                        "Calls")))
    IN IF ~r.ok THEN ErrorAnswer("InvalidParams")
       ELSE IF calls = <<>> THEN NoResult ELSE Answer(calls)

\* The item a client sends back with the data of a node id.
ItemOf(node_id) == [name |-> "", location |-> <<>>, data |-> node_id_data(node_id)]

LspPositions == [line : LspLines, character : LspCharacters]

----------------------------------------------------------------------------
(* C13 *)

\* The lookup at the position can hand the handler a node id that is no longer
\* in the graph.
MeetsMissingNode(uri, position, overflow_checks) ==
    \E hit \in find_node_at_position(State, uri, position, overflow_checks) :
        hit.kind = "some" /\ hit.id \notin DOMAIN graph.nodes

\* C13: a query that meets a node id which is no longer in the graph skips it or
\* answers "no result"; it never answers an error because of the missing node.
C13_MissingNodeIsNoError ==
    CanRead =>
        /\ \A position \in LspPositions, overflow_checks \in BOOLEAN :
              MeetsMissingNode("a.py", position, overflow_checks) =>
                  /\ \A a \in goto_definition(State, "a.py", position, overflow_checks) :
                        a.kind # "error"
                  /\ \A a \in references(State, "a.py", position, TRUE, overflow_checks) :
                        a.kind # "error"
                  /\ \A a \in hover(State, "a.py", position, overflow_checks) :
                        a.kind # "error"
                  /\ \A a \in prepare_call_hierarchy(State, "a.py", position, overflow_checks) :
                        a.kind # "error"
        /\ document_symbol(State, "a.py").kind # "error"
        /\ \A node_id \in (1 .. MaxNodeId) \ DOMAIN graph.nodes :
              /\ incoming_calls(State, ItemOf(node_id)).kind # "error"
              /\ outgoing_calls(State, ItemOf(node_id)).kind # "error"

\* The same, of references, document_symbol, incoming_calls and outgoing_calls.
C13_MissingNodeSkipped ==
    CanRead =>
        /\ \A position \in LspPositions, overflow_checks \in BOOLEAN :
              MeetsMissingNode("a.py", position, overflow_checks) =>
                  \A a \in references(State, "a.py", position, TRUE, overflow_checks) :
                      a.kind # "error"
        /\ document_symbol(State, "a.py").kind # "error"
        /\ \A node_id \in (1 .. MaxNodeId) \ DOMAIN graph.nodes :
              /\ incoming_calls(State, ItemOf(node_id)).kind # "error"
              /\ outgoing_calls(State, ItemOf(node_id)).kind # "error"

----------------------------------------------------------------------------
(* C14 *)

\* The entries of by_position[path] whose range contains the position.
Containing(idx, path, line, col) ==
    IF path \in DOMAIN idx.by_position
    THEN {e \in Range(idx.by_position[path]) : contains(e[1], line, col)}
    ELSE {}

\* The size of a range as the rule states it, in the integers.
StatedSize(range) ==
    (range.end_line - range.start_line) * 10000 + (range.end_col - range.start_col)

\* The containing entries of minimal size.
Smallest(entries) ==
    {e \in entries : \A other \in entries : StatedSize(e[1]) <= StatedSize(other[1])}

IndexLines == 0 .. 6

\* C14: find_at_position returns nothing exactly when no range of
\* by_position[path] contains the position, and otherwise the id of a containing
\* range of minimal size, also when a range ends left of its start column.
C14_SmallestContainingRange ==
    \A line \in IndexLines, col \in LspCharacters, overflow_checks \in BOOLEAN :
        LET hit == find_at_position(symbol_index, "a.py", line, col, overflow_checks)
            candidates == Containing(symbol_index, "a.py", line, col)
        IN IF candidates = {}
           THEN hit = NotFound
           ELSE hit.kind = "some" /\ hit.id \in {e[2] : e \in Smallest(candidates)}

----------------------------------------------------------------------------
(* C15 *)

\* Where the id stands in the order add_file read the ids from the FileInfo,
\* which is the order of by_file[path].
InsertionRank(idx, path, id) ==
    CHOOSE i \in DOMAIN idx.by_file[path] : idx.by_file[path][i] = id

\* C15: when several ranges that contain the position have the same minimal
\* size, find_at_position returns the one inserted earliest, whatever their
\* start positions are.
C15_TieGoesToEarliestInserted ==
    Quiescent =>
        \A line \in IndexLines, col \in LspCharacters, overflow_checks \in BOOLEAN :
            LET hit == find_at_position(symbol_index, "a.py", line, col, overflow_checks)
                tied == Smallest(Containing(symbol_index, "a.py", line, col))
            IN Cardinality(tied) >= 2 =>
                   /\ hit.kind = "some"
                   /\ \A e \in tied : InsertionRank(symbol_index, "a.py", hit.id)
                                          <= InsertionRank(symbol_index, "a.py", e[2])

----------------------------------------------------------------------------
(* C16 *)

\* The nodes among ids whose range is the smallest.
Innermost(g, ids) ==
    {id \in ids : \A other \in ids :
        StatedSize(extract_range(g.nodes[id])) <= StatedSize(extract_range(g.nodes[other]))}

\* C16: when the symbol index has no match and find_node_at_position falls back
\* to the scan of the graph nodes of the path, it returns the innermost node
\* whose range contains the position, or nothing if none contains it.
C16_FallbackFindsInnermost ==
    CanRead =>
        \A position \in LspPositions, overflow_checks \in BOOLEAN :
            LET line == position.line + 1
                col == position.character
                matches == ScanMatches(graph, "a.py", line, col)
            IN find_at_position(symbol_index, "a.py", line, col, overflow_checks) = NotFound =>
                   \A hit \in find_node_at_position(State, "a.py", position, overflow_checks) :
                       IF matches = {}
                       THEN hit = NotFound
                       ELSE hit.kind = "some" /\ hit.id \in Innermost(graph, matches)

----------------------------------------------------------------------------
(* C17 *)

\* The ranges the index stores.
StoredRanges ==
    UNION {{e[1] : e \in Range(symbol_index.by_position[p])} :
               p \in DOMAIN symbol_index.by_position}

\* The range survives the conversion to editor coordinates and back, by
\* to_lsp_range and by node_to_location alike.
RoundTrips(range) == to_internal_range(to_lsp_range(range)) = range

LocationRoundTrips(node_id) ==
    to_internal_range(node_to_location(graph, node_id).location[1].range)
        = extract_range(graph.nodes[node_id])

OneIndexed(range) == range.start_line >= 1 /\ range.end_line >= 1

\* C17 as stated: every IndexRange the index can store, its lines of any value
\* including 0, converted to editor coordinates and back is the original range.
C17_EveryRangeRoundTrips ==
    /\ \A range \in StoredRanges : RoundTrips(range)
    /\ \A node_id \in DOMAIN graph.nodes : LocationRoundTrips(node_id)

\* C17, amended: every stored IndexRange whose lines are 1-indexed (start_line
\* and end_line at least 1) converted to editor coordinates and back is the
\* original range.
C17_OneIndexedRangeRoundTrips ==
    /\ \A range \in StoredRanges : OneIndexed(range) => RoundTrips(range)
    /\ \A node_id \in DOMAIN graph.nodes :
          OneIndexed(extract_range(graph.nodes[node_id])) => LocationRoundTrips(node_id)

\* The index stores a 1-indexed range whose editor coordinates differ from it.
C17_StoresOneIndexedRange ==
    \E range \in StoredRanges : OneIndexed(range) /\ to_lsp_range(range).start.line < range.start_line

----------------------------------------------------------------------------
(* C18 *)

InvalidParamsKinds == {"SymbolNotFound", "FileNotIndexed", "InvalidUri",
                       "UnsupportedLanguage", "NodeNotFound"}

InternalErrorKinds == {"Parser", "Graph", "Cache", "Io"}

\* The codes of the errors goto_definition answers with at a valid URI: each
\* comes from an LspError of node_to_location.
DefinitionErrorCodes ==
    {answer.code : answer \in
        {a \in UNION {goto_definition(State, "a.py", position, FALSE) :
                          position \in LspPositions} : a.kind = "error"}}

\* C18 as stated: SymbolNotFound, FileNotIndexed, Parser, Graph, InvalidUri and
\* NodeNotFound surface as invalid-params; UnsupportedLanguage, Cache and Io as
\* internal-error.
C18_StatedErrorCodes ==
    /\ \A err \in LspErrors : error_code(err) = ParserAndGraphInvalid(err)
    /\ CanRead => DefinitionErrorCodes \subseteq {ParserAndGraphInvalid("Graph")}

\* C18, amended: SymbolNotFound, FileNotIndexed, InvalidUri, UnsupportedLanguage
\* and NodeNotFound surface as invalid-params; Parser, Graph, Cache and Io as
\* internal-error, so the graph error of a definition request for a node that is
\* gone surfaces as internal-error.
C18_ErrorCodes ==
    /\ LspErrors = InvalidParamsKinds \cup InternalErrorKinds
    /\ \A err \in InvalidParamsKinds : error_code(err) = "InvalidParams"
    /\ \A err \in InternalErrorKinds : error_code(err) = "InternalError"
    /\ CanRead => DefinitionErrorCodes \subseteq {"InternalError"}

\* A definition request is answered by the conversion of a graph error.
C18_GraphErrorAnswered == CanRead /\ DefinitionErrorCodes # {}

----------------------------------------------------------------------------
(* C19 *)

\* What the five handlers answer for the document and the position.
HandlerAnswers(uri, position) ==
    UNION {goto_definition(State, uri, position, overflow_checks)
               \cup references(State, uri, position, include_declaration, overflow_checks)
               \cup hover(State, uri, position, overflow_checks)
               \cup prepare_call_hierarchy(State, uri, position, overflow_checks)
               \cup {document_symbol(State, uri)} :
           overflow_checks \in BOOLEAN, include_declaration \in BOOLEAN}

\* The lookup finds no symbol of the document at the position, and the document
\* has no symbols to list.
NoSymbolAt(uri, position) ==
    /\ \A overflow_checks \in BOOLEAN :
          find_node_at_position(State, uri, position, overflow_checks) = {NotFound}
    /\ uri \notin DOMAIN symbol_index.by_file

\* With no symbol at the position the handlers answer "no result".
C19_NoSymbolIsNoResult ==
    CanRead =>
        \A position \in LspPositions :
            NoSymbolAt("a.py", position) => HandlerAnswers("a.py", position) = {NoResult}

\* C19: goto_definition, references, hover, document_symbol and
\* prepare_call_hierarchy answer "no result", not an error, for a URI that
\* cannot be converted to a file path and for a position with no symbol.
C19_InvalidUriIsNoResult ==
    CanRead =>
        \A position \in LspPositions :
            /\ HandlerAnswers(InvalidUri, position) = {NoResult}
            /\ NoSymbolAt("a.py", position) => HandlerAnswers("a.py", position) = {NoResult}

----------------------------------------------------------------------------
(* codegraph.getAIContext: the token budget *)

\* usize arithmetic wraps at 2^64; the model counts in words of 20 bits.
UsizeModulus == 2 ^ 20

\* TokenBudget::new(total)
new(total) == [total |-> total, used |-> 0]

\* A consume that adds the tokens without comparing with the total.
consume_always(budget, tokens, overflow_checks) ==
    [panics |-> FALSE, taken |-> TRUE,
     budget |-> [budget EXCEPT !.used = (budget.used + tokens) % UsizeModulus]]

\* TokenBudget::consume(&mut self, tokens): whether it panics (the addition
\* overflows in a build with overflow checks), what it returns and the budget
\* it leaves.
consume(budget, tokens, overflow_checks) ==
    LET sum == budget.used + tokens
        wrapped == sum % UsizeModulus
    IN IF sum >= UsizeModulus /\ overflow_checks
       THEN [panics |-> TRUE, taken |-> FALSE, budget |-> budget]
       ELSE IF wrapped <= budget.total
            THEN [panics |-> FALSE, taken |-> TRUE,
                  budget |-> [budget EXCEPT !.used = wrapped]]
            ELSE [panics |-> FALSE, taken |-> FALSE, budget |-> budget]

\* TokenBudget::has_budget
has_budget(budget) == budget.used < budget.total

\* TokenBudget::remaining: total.saturating_sub(used)
remaining(budget) ==
    IF budget.used >= budget.total THEN 0 ELSE budget.total - budget.used

\* estimate_tokens(code): code.len() / 4, of a code of the given length
estimate_tokens(code_len) == code_len \div 4

\* params.max_tokens.unwrap_or(4000)
DefaultMaxTokens == 4000

max_tokens_or_default(max_tokens) ==
    IF max_tokens = <<>> THEN DefaultMaxTokens ELSE max_tokens[1]

\* "<source not available>".len()
SourceNotAvailableLen == 22

----------------------------------------------------------------------------
(* codegraph.getAIContext: the inputs *)

SymTest == [name |-> "test_foo", start_line |-> 5, start_col |-> 0, end_line |-> 6, end_col |-> 2]

\* test_foo calls foo, and foo calls test_foo.
TextFooTest ==
    [parses |-> TRUE, functions |-> <<SymFoo, SymTest>>, classes |-> <<>>, traits |-> <<>>,
     edges |-> <<Edge(2, 1, "Calls"), Edge(1, 2, "Calls")>>]

SymBar == [name |-> "bar", start_line |-> 7, start_col |-> 0, end_line |-> 8, end_col |-> 0]

\* bar calls foo at five places and extends it, and test_foo calls foo.
TextCallers ==
    [parses |-> TRUE, functions |-> <<SymFoo, SymBar, SymTest>>, classes |-> <<>>,
     traits |-> <<>>,
     edges |-> <<Edge(2, 1, "Calls"), Edge(2, 1, "Calls"), Edge(2, 1, "Calls"),
                 Edge(2, 1, "Calls"), Edge(2, 1, "Calls"), Edge(3, 1, "Calls"),
                 Edge(2, 1, "Extends")>>]

ContextTexts == {TextFoo, TextFooC, TextFooTest, TextCallers, BadText}

\* name.starts_with("test_") || name.ends_with("_test"), of the names of the model
is_test_name(name) == name \in {"test_foo"}

\* The positions the requests of the model ask about.
ContextPositions ==
    {position \in LspPositions : position.line \in {1, 4} /\ position.character = 4}

\* params.context_type
RequestContextTypes == {"explain", "modify", "debug", "test", "other"}

\* params.max_tokens
MaxTokensChoices == {<<>>, <<0>>, <<2>>, <<5>>, <<UsizeModulus - 1>>}

\* What get_node_source_code returns for a node: no source (Ok(None) or an
\* error), or a source of some length, from the property of the node or from
\* the lines of the file on disk.
SourceChoices ==
    {<<>>, <<7>>, <<8>>, <<4 * DefaultMaxTokens>>, <<4 * (UsizeModulus - 2)>>}

\* What a loop of get_*_context passes to create_related_symbol: the node, the
\* relationship and the relevance, in tenths.
Candidate(node_id, relationship, relevance) ==
    [node_id |-> node_id, relationship |-> relationship, relevance |-> relevance]

Candidates(node_ids, relationship, relevance) ==
    [i \in DOMAIN node_ids |-> Candidate(node_ids[i], relationship, relevance)]

\* get_explanation_context: what it passes to create_related_symbol, in order
explanation_candidates(g, node_id) ==
    LET outgoing == get_connected_edges(g, node_id, "Outgoing")
        incoming == get_connected_edges(g, node_id, "Incoming")
    IN Candidates(Targets(take(outgoing, 5)), "uses", 10)
           \o Candidates(Sources(take(OfType(incoming, "Calls"), 3)), "called_by", 8)
           \o Candidates(Sources(OfType(incoming, "Extends")), "inherits", 9)

\* get_modification_context: of the first five incoming Calls, the callers that
\* are tests, then the other callers
modification_candidates(g, node_id) ==
    LET callers == Sources(take(OfType(get_connected_edges(g, node_id, "Incoming"), "Calls"), 5))
    IN Candidates(SelectSeq(callers, LAMBDA id : is_test_name(g.nodes[id].name)), "tests", 10)
           \o Candidates(SelectSeq(callers, LAMBDA id : ~is_test_name(g.nodes[id].name)),
                         "called_by", 9)

\* format!("call_chain_depth_{}", depth)
call_chain_depth(depth) ==
    CASE depth = 0 -> "call_chain_depth_0"
      [] depth = 1 -> "call_chain_depth_1"
      [] depth = 2 -> "call_chain_depth_2"
      [] depth = 3 -> "call_chain_depth_3"
      [] OTHER -> "call_chain_depth_4"

\* A chain that follows the first caller whether visited or not.
RECURSIVE call_chain_revisiting(_, _, _, _)
call_chain_revisiting(g, current, visited, depth) ==
    IF depth >= 5 THEN <<>>
    ELSE LET callers == OfType(get_connected_edges(g, current, "Incoming"), "Calls")
         IN IF callers = <<>> THEN <<>>
            ELSE <<Candidate(callers[1].source, call_chain_depth(depth), 10 - depth)>>
                     \o call_chain_revisiting(g, callers[1].source, visited, depth + 1)

\* get_debug_context: the chain of first callers not yet visited, at most five
RECURSIVE call_chain(_, _, _, _)
call_chain(g, current, visited, depth) ==
    IF depth >= 5 THEN <<>>
    ELSE LET callers == SelectSeq(OfType(get_connected_edges(g, current, "Incoming"), "Calls"),
                                  LAMBDA e : e.source \notin visited)
         IN IF callers = <<>> THEN <<>>
            ELSE <<Candidate(callers[1].source, call_chain_depth(depth), 10 - depth)>>
                     \o call_chain(g, callers[1].source,
                                   visited \cup {callers[1].source}, depth + 1)

debug_candidates(g, node_id) ==
    call_chain(g, node_id, {node_id}, 0)
        \o Candidates(Targets(take(get_connected_edges(g, node_id, "Outgoing"), 3)),
                      "data_flow", 8)

\* get_test_context: of the first three incoming Calls, the callers that are
\* tests, then the dependencies to mock
test_candidates(g, node_id) ==
    LET callers == Sources(take(OfType(get_connected_edges(g, node_id, "Incoming"), "Calls"), 3))
    IN Candidates(SelectSeq(callers, LAMBDA id : is_test_name(g.nodes[id].name)),
                  "example_test", 9)
           \o Candidates(Targets(take(get_connected_edges(g, node_id, "Outgoing"), 3)),
                         "dependency_to_mock", 7)

\* match params.context_type.as_str()
related_candidates(g, node_id, context_type) ==
    CASE context_type = "explain" -> explanation_candidates(g, node_id)
      [] context_type = "modify" -> modification_candidates(g, node_id)
      [] context_type = "debug" -> debug_candidates(g, node_id)
      [] context_type = "test" -> test_candidates(g, node_id)
      [] OTHER -> <<>>

----------------------------------------------------------------------------
(* codegraph.getAIContext: the handler *)

\* handle_get_ai_context returns an error before it has a budget: the URI has no
\* file path, there is no symbol at the position, or the node is gone from the
\* graph; or the position lookup panics.
AiContextFails(t, uri, position, overflow_checks) ==
    /\ Free(t)
    /\ \/ uri = InvalidUri
       \/ /\ uri # InvalidUri
          /\ CanRead
          /\ \E hit \in find_node_at_position(State, uri, position, overflow_checks) :
                 hit.kind = "some" => hit.id \notin DOMAIN graph.nodes
    /\ tasks' = [tasks EXCEPT ![t] = Done(Begin("get_ai_context", "ai_related", uri, BadText), FALSE)]
    /\ UNCHANGED <<graph, lock, symbol_index, file_cache, query_cache>>

\* handle_get_ai_context up to the match on the context type: graph.read().await,
\* the node at the position, its source, the budget and the first consume.
AiContextBegin(t, uri, position, max_tokens, source, overflow_checks) ==
    /\ Free(t)
    /\ uri # InvalidUri
    /\ CanRead
    /\ \E hit \in find_node_at_position(State, uri, position, overflow_checks) :
           /\ hit.kind = "some"
           /\ hit.id \in DOMAIN graph.nodes
           /\ LET primary_code_len == IF source = <<>> THEN SourceNotAvailableLen ELSE source[1]
                  budget == consume(new(max_tokens_or_default(max_tokens)),
                                    estimate_tokens(primary_code_len), overflow_checks).budget
              IN tasks' = [tasks EXCEPT ![t] =
                     [Begin("get_ai_context", "ai_match", uri, BadText)
                         EXCEPT !.ai = [NoAiLocals EXCEPT !.max_tokens = max_tokens,
                                                          !.node_id = hit.id,
                                                          !.budget = budget]]]
    /\ lock' = [lock EXCEPT !.readers = @ \cup {t}]
    /\ UNCHANGED <<graph, symbol_index, file_cache, query_cache>>

\* match params.context_type.as_str(): the get_*_context of the type reads the
\* edges of the node.
AiContextMatch(t, context_type) ==
    /\ tasks[t].pc = "ai_match"
    /\ tasks' = [tasks EXCEPT
           ![t].pc = "ai_related",
           ![t].ai.candidates = related_candidates(graph, tasks[t].ai.node_id, context_type)]
    /\ UNCHANGED <<graph, lock, symbol_index, file_cache, query_cache>>

\* One turn of a loop of get_*_context: break without budget, else
\* create_related_symbol for the next node, which consumes the tokens of its
\* source and keeps the symbol if the budget takes them.
AiContextRelated(t, source, overflow_checks) ==
    /\ tasks[t].pc = "ai_related"
    /\ tasks[t].ai.candidates # <<>>
    /\ LET ai == tasks[t].ai
           r == consume(ai.budget, estimate_tokens(source[1]), overflow_checks)
       IN IF ~has_budget(ai.budget)
          THEN /\ tasks' = [tasks EXCEPT ![t].ai.candidates = <<>>]
               /\ UNCHANGED lock
          ELSE IF source = <<>>
          THEN /\ tasks' = [tasks EXCEPT ![t].ai.candidates = Tail(@)]
               /\ UNCHANGED lock
          ELSE IF r.panics
          THEN /\ tasks' = [tasks EXCEPT ![t] = Done(@, FALSE)]
               /\ lock' = [lock EXCEPT !.readers = @ \ {t}]
          ELSE /\ tasks' = [tasks EXCEPT
                     ![t].ai = [ai EXCEPT !.budget = r.budget,
                                          !.candidates = Tail(@),
                                          !.related_symbols =
                                              IF r.taken
                                              THEN Append(@, [symbol |-> Head(ai.candidates),
                                                              code_len |-> source[1]])
                                              ELSE @]]
               /\ UNCHANGED lock
    /\ UNCHANGED <<graph, symbol_index, file_cache, query_cache>>

\* The response: metadata.total_tokens is budget.used.  The read guard drops.
AiContextRespond(t) ==
    /\ tasks[t].pc = "ai_related"
    /\ tasks[t].ai.candidates = <<>>
    /\ tasks' = [tasks EXCEPT ![t] = Done(@, TRUE)]
    /\ lock' = [lock EXCEPT !.readers = @ \ {t}]
    /\ UNCHANGED <<graph, symbol_index, file_cache, query_cache>>

\* metadata.total_tokens of the response a task has returned
total_tokens(task) == task.ai.budget.used

\* SpecContext: one source file opened by the editor, and the getAIContext
\* requests about it, one at a time.
NextContext ==
    \/ \E text \in ContextTexts : DidOpenParse(1, "a.py", text)
    \/ DidOpenIndex(1)
    \/ DidOpenLogged(1)
    \/ \E uri \in {"a.py", InvalidUri}, position \in ContextPositions, overflow_checks \in BOOLEAN :
           AiContextFails(1, uri, position, overflow_checks)
    \/ \E position \in ContextPositions, max_tokens \in MaxTokensChoices,
          source \in SourceChoices, overflow_checks \in BOOLEAN :
           AiContextBegin(1, "a.py", position, max_tokens, source, overflow_checks)
    \/ \E context_type \in RequestContextTypes : AiContextMatch(1, context_type)
    \/ \E source \in SourceChoices, overflow_checks \in BOOLEAN :
           AiContextRelated(1, source, overflow_checks)
    \/ AiContextRespond(1)

SpecContext == Init /\ [][NextContext]_vars

----------------------------------------------------------------------------
(* C20 *)

\* The tasks whose handler has made its budget.
AiTasks == {t \in Tasks : tasks[t].op = "get_ai_context" /\ tasks[t].ai # NoAiLocals}

Responded(t) == t \in AiTasks /\ tasks[t].pc = "done" /\ tasks[t].ok

\* C20: metadata.total_tokens of every getAIContext response is at most the
\* max_tokens of the request (4000 when it gives none), and the used of the
\* budget never exceeds its total, whatever the handler has consumed.
C20_TokensWithinBudget ==
    \A t \in AiTasks :
        /\ tasks[t].ai.budget.total = max_tokens_or_default(tasks[t].ai.max_tokens)
        /\ tasks[t].ai.budget.used <= tasks[t].ai.budget.total
        /\ Responded(t) => total_tokens(tasks[t]) <= max_tokens_or_default(tasks[t].ai.max_tokens)

\* A response with related symbols whose tokens fill the budget of the request.
C20_BudgetFilled ==
    \E t \in Tasks :
        /\ Responded(t)
        /\ tasks[t].ai.related_symbols # <<>>
        /\ total_tokens(tasks[t]) = max_tokens_or_default(tasks[t].ai.max_tokens)
        /\ remaining(tasks[t].ai.budget) = 0

----------------------------------------------------------------------------
(* C21 *)

\* The sum of the lengths of the codes of the related symbols.
RECURSIVE CodeChars(_)
CodeChars(related_symbols) ==
    IF related_symbols = <<>> THEN 0
    ELSE Head(related_symbols).code_len + CodeChars(Tail(related_symbols))

\* C21: in every getAIContext response the character lengths of the codes of
\* the related symbols sum to at most 4 times the max_tokens of the request.
C21_RelatedCodeWithinBudget ==
    \A t \in Tasks :
        Responded(t) =>
            CodeChars(tasks[t].ai.related_symbols)
                <= 4 * max_tokens_or_default(tasks[t].ai.max_tokens)

----------------------------------------------------------------------------
(* C22 *)

\* The callers of a node: the sources of all its incoming Calls edges, in edge order.
Callers(g, node_id) == Sources(OfType(get_connected_edges(g, node_id, "Incoming"), "Calls"))

\* Up to 5 test callers among all the callers, labelled tests with relevance 1.0,
\* then up to 5 of the other callers, labelled called_by with relevance 0.9.
TestsThenCallers(g, node_id) ==
    Candidates(take(SelectSeq(Callers(g, node_id), LAMBDA id : is_test_name(g.nodes[id].name)), 5),
               "tests", 10)
        \o Candidates(take(SelectSeq(Callers(g, node_id),
                                     LAMBDA id : ~is_test_name(g.nodes[id].name)), 5),
                      "called_by", 9)

\* C22: the modify strategy considers up to 5 test callers chosen among all the
\* incoming Calls of the node, as tests with relevance 1.0, then up to 5 of the
\* other callers as called_by with relevance 0.9; a test caller is considered
\* however many other callers come before it in edge order.
C22_ModifyTakesTestCallers ==
    [][\A t \in Tasks :
          AiContextMatch(t, "modify") =>
              tasks'[t].ai.candidates = TestsThenCallers(graph, tasks[t].ai.node_id)]_vars

----------------------------------------------------------------------------
(* C23 *)

\* The entries of the caller walk among the candidates, and those after the walk.
WalkOf(candidates) == SelectSeq(candidates, LAMBDA c : c.relationship # "data_flow")

DataFlowOf(candidates) == SelectSeq(candidates, LAMBDA c : c.relationship = "data_flow")

\* The step at place d + 1 of the walk from the start node follows the first
\* incoming Calls source of the node before it that the walk has not visited.
FollowsFirstUnvisited(g, start, walk, i) ==
    LET current == IF i = 1 THEN start ELSE walk[i - 1].node_id
        visited == {start} \cup {walk[j].node_id : j \in 1..(i - 1)}
        unvisited == SelectSeq(Callers(g, current), LAMBDA id : id \notin visited)
    IN /\ unvisited # <<>>
       /\ walk[i].node_id = unvisited[1]
       /\ walk[i].node_id \notin visited
       /\ walk[i].relationship = call_chain_depth(i - 1)

\* The walk went on until it had five steps or no unvisited caller was left.
WalkedToTheEnd(g, start, walk) ==
    LET current == IF walk = <<>> THEN start ELSE walk[Len(walk)].node_id
        visited == {start} \cup {walk[j].node_id : j \in DOMAIN walk}
    IN Len(walk) = 5 \/ \A id \in Range(Callers(g, current)) : id \in visited

----------------------------------------------------------------------------
(* Queries over edges *)

\* C holds foo, foo extends C, refers to bar and imports C, and bar calls foo.
TextKinds ==
    [parses |-> TRUE, functions |-> <<SymFoo, SymBar>>, classes |-> <<SymC>>, traits |-> <<>>,
     edges |-> <<Edge(3, 1, "Contains"), Edge(1, 3, "Extends"), Edge(1, 2, "References"),
                 Edge(1, 3, "Imports"), Edge(2, 1, "Calls")>>]

\* foo calls itself and bar, and bar refers to foo and is imported by foo.
TextLoop ==
    [parses |-> TRUE, functions |-> <<SymFoo, SymBar>>, classes |-> <<>>, traits |-> <<>>,
     edges |-> <<Edge(1, 1, "Calls"), Edge(1, 2, "Calls"), Edge(2, 1, "References"),
                 Edge(1, 2, "Imports")>>]

EdgeTexts == {TextFooC, TextFooTest, TextCallers, TextKinds, TextLoop, BadText}

\* SpecEdges: one source file whose declarations have edges, delivered by the
\* editor or written on disk, handled one at a time.
NextEdges ==
    \/ Edits({1}, OneFile, EdgeTexts)
    \/ \E content \in EdgeTexts : WatcherChange("a.py", content)
    \/ WatcherRemove("a.py")

SpecEdges == Init /\ [][NextEdges]_vars

----------------------------------------------------------------------------
(* C24 *)

DefinitionTypes == {"Calls", "References", "Imports"}

\* The target of the first outgoing edge of the node, in edge order, whose type
\* is Calls, References or Imports; the node itself if it has none.
DefinitionOf(g, n) ==
    LET outgoing == get_connected_edges(g, n, "Outgoing")
        places == {i \in DOMAIN outgoing : outgoing[i].edge_type \in DefinitionTypes}
    IN IF places = {} THEN n
       ELSE outgoing[CHOOSE i \in places : \A j \in places : i <= j].target

\* goto_definition answers with the location of the definition of the node
\* the position resolves to.
AnswersDefinition(hit) ==
    GotoDefinitionOf(State, hit)
        = Answer(node_to_location(graph, DefinitionOf(graph, hit.id)).location)

\* For a node the graph holds, goto_definition answers with the location of
\* its definition.
C24_DefinitionOfGraphNode ==
    CanRead =>
        \A position \in LspPositions, overflow_checks \in BOOLEAN :
            \A hit \in find_node_at_position(State, "a.py", position, overflow_checks) :
                hit.kind = "some" /\ hit.id \in DOMAIN graph.nodes => AnswersDefinition(hit)

\* C24: goto_definition at a position that resolves to node n answers with the
\* location of the target of the first outgoing edge of n, in edge order, whose
\* type is Calls, References or Imports, and with the location of n itself if n
\* has no such edge.
C24_GotoDefinitionFollowsFirstEdge ==
    CanRead =>
        \A position \in LspPositions, overflow_checks \in BOOLEAN :
            \A hit \in find_node_at_position(State, "a.py", position, overflow_checks) :
                hit.kind = "some" => AnswersDefinition(hit)

----------------------------------------------------------------------------
(* C25 *)

\* The location of a node, in a sequence: empty if the graph does not hold it.
LocationsOf(g, node_ids) ==
    LET present == SelectSeq(node_ids, LAMBDA id : id \in DOMAIN g.nodes)
    IN [i \in DOMAIN present |->
           [uri |-> g.nodes[present[i]].path,
            range |-> to_lsp_range(extract_range(g.nodes[present[i]]))]]

\* The location of the definition node if asked for, then the locations of the
\* sources of all the incoming edges of the definition node.
ReferenceList(g, d, include_declaration) ==
    (IF include_declaration THEN LocationsOf(g, <<d>>) ELSE <<>>)
        \o LocationsOf(g, Sources(get_connected_edges(g, d, "Incoming")))

\* C25: references at a position with definition node d answers with the
\* location of d, first, when include_declaration is true, followed by the
\* location of the source of every incoming edge of d; it answers no result
\* exactly when that list is empty.
C25_ReferencesListsIncomingSources ==
    CanRead =>
        \A position \in LspPositions, overflow_checks \in BOOLEAN,
           include_declaration \in BOOLEAN :
            \A hit \in find_node_at_position(State, "a.py", position, overflow_checks) :
                hit.kind = "some" =>
                    LET list == ReferenceList(graph, DefinitionOf(graph, hit.id),
                                              include_declaration)
                    IN ReferencesOf(State, hit, include_declaration)
                           = IF list = <<>> THEN NoResult ELSE Answer(list)

\* A references request about a reference: the answer lists the declaration of
\* its definition and the sources of two or more incoming edges.
C25_ReferencesAnswered ==
    /\ CanRead
    /\ \E position \in LspPositions :
           \E hit \in find_node_at_position(State, "a.py", position, FALSE) :
               /\ hit.kind = "some"
               /\ Len(ReferencesOf(State, hit, TRUE).value) >= 3
               /\ DefinitionOf(graph, hit.id) # hit.id

----------------------------------------------------------------------------
(* C26 *)

\* Node ids of one and of more digits.
MaxPayloadId == 120

\* The item of the answer is accepted by incoming_calls and outgoing_calls and
\* carries the node id.
PayloadAccepted(item, node_id) ==
    /\ extract_node_id_from_item(item) = [ok |-> TRUE, node_id |-> node_id]
    /\ incoming_calls(State, item).kind \in {"result", "none"}
    /\ outgoing_calls(State, item).kind \in {"result", "none"}
    /\ incoming_calls(State, item) = incoming_calls(State, ItemOf(node_id))
    /\ outgoing_calls(State, item) = outgoing_calls(State, ItemOf(node_id))

\* C26: prepare_call_hierarchy answers with an item only when the node at the
\* position is a Function, and the payload of the item, the node id in decimal,
\* is accepted by incoming_calls and outgoing_calls and decodes to that node id.
C26_PayloadRoundTrips ==
    /\ \A node_id \in 0..MaxPayloadId :
           extract_node_id_from_item(ItemOf(node_id)) = [ok |-> TRUE, node_id |-> node_id]
    /\ CanRead =>
           \A position \in LspPositions, overflow_checks \in BOOLEAN :
               \A hit \in find_node_at_position(State, "a.py", position, overflow_checks) :
                   LET answer == PrepareCallHierarchyOf(State, hit)
                   IN answer.kind = "result" =>
                          /\ hit.id \in DOMAIN graph.nodes
                          /\ graph.nodes[hit.id].node_type = "Function"
                          /\ Len(answer.value) = 1
                          /\ PayloadAccepted(answer.value[1], hit.id)

\* prepare_call_hierarchy answers with the item of a function that has callers,
\* and with no item at a class.
C26_ItemPrepared ==
    /\ CanRead
    /\ \E position \in LspPositions :
           \E hit \in find_node_at_position(State, "a.py", position, FALSE) :
               /\ PrepareCallHierarchyOf(State, hit).kind = "result"
               /\ incoming_calls(State, PrepareCallHierarchyOf(State, hit).value[1]).kind = "result"
    /\ \E position \in LspPositions :
           \E hit \in find_node_at_position(State, "a.py", position, FALSE) :
               /\ hit.kind = "some" /\ hit.id \in DOMAIN graph.nodes
               /\ graph.nodes[hit.id].node_type = "Class"
               /\ PrepareCallHierarchyOf(State, hit) = NoResult

----------------------------------------------------------------------------
(* C27 *)

\* The item and the range the claim gives for a node at the other end of a call.
CallOf(g, node_id) ==
    [item |-> [name |-> g.nodes[node_id].name,
               location |-> <<[uri |-> g.nodes[node_id].path,
                               range |-> to_lsp_range(extract_range(g.nodes[node_id]))]>>,
               data |-> node_id_data(node_id)],
     from_ranges |-> <<to_lsp_range(extract_range(g.nodes[node_id]))>>]

\* The answer has one call per node of the sequence, for each node as many as
\* the sequence has, and no result for the empty sequence.
OneCallPerEnd(g, answer, ends) ==
    IF ends = <<>> THEN answer = NoResult
    ELSE /\ answer.kind = "result"
         /\ Len(answer.value) = Len(ends)
         /\ \A id \in Range(ends) :
                Cardinality({i \in DOMAIN answer.value : answer.value[i] = CallOf(g, id)})
                    = Cardinality({i \in DOMAIN ends : ends[i] = id})

\* C27: incoming_calls of node n answers with one item per incoming edge of n of
\* type Calls, the source of the edge with the range of the source, and no item
\* for an edge of another type; outgoing_calls does the same with the outgoing
\* Calls edges and their targets; each answers no result when it has no item.
C27_CallsPerCallsEdge ==
    CanRead =>
        \A n \in 1..MaxNodeId :
            /\ OneCallPerEnd(graph, incoming_calls(State, ItemOf(n)),
                             Sources(SelectSeq(graph.edges,
                                 LAMBDA e : e.target = n /\ e.edge_type = "Calls")))
            /\ OneCallPerEnd(graph, outgoing_calls(State, ItemOf(n)),
                             Targets(SelectSeq(graph.edges,
                                 LAMBDA e : e.source = n /\ e.edge_type = "Calls")))

\* A node with incoming edges of type Calls and of another type, and a node
\* with outgoing ones, whose calls are answered.
C27_CallsAnswered ==
    /\ CanRead
    /\ \E n \in DOMAIN graph.nodes :
           /\ incoming_calls(State, ItemOf(n)).kind = "result"
           /\ \E i \in DOMAIN graph.edges :
                  graph.edges[i].target = n /\ graph.edges[i].edge_type # "Calls"
    /\ \E n \in DOMAIN graph.nodes :
           /\ outgoing_calls(State, ItemOf(n)).kind = "result"
           /\ \E i \in DOMAIN graph.edges :
                  graph.edges[i].source = n /\ graph.edges[i].edge_type # "Calls"

----------------------------------------------------------------------------
(* C28 *)

\* The state a step leads to.
StateAfter ==
    [graph |-> graph', symbol_index |-> symbol_index',
     file_cache |-> file_cache', query_cache |-> query_cache']

\* references and document_symbol answer the same before and after the step.
SameAnswers(uri) ==
    /\ document_symbol(State, uri) = document_symbol(StateAfter, uri)
    /\ \A position \in LspPositions, include_declaration \in BOOLEAN,
          overflow_checks \in BOOLEAN :
           references(State, uri, position, include_declaration, overflow_checks)
               = references(StateAfter, uri, position, include_declaration, overflow_checks)

\* C28: did_close of a URI removes the URI from the file cache and leaves the
\* rest as it is: the nodes and edges of the graph, the four maps of the symbol
\* index and the query caches; references and document_symbol for the closed
\* file answer as before the close.
C28_CloseOnlyEvictsFileCache ==
    [][\A t \in Tasks, uri \in Uris :
          DidClose(t, uri) =>
              /\ uri \notin DOMAIN file_cache'
              /\ \A other \in DOMAIN file_cache :
                     other # uri => other \in DOMAIN file_cache' /\ file_cache'[other] = file_cache[other]
              /\ DOMAIN file_cache' \subseteq DOMAIN file_cache
              /\ graph' = graph
              /\ symbol_index' = symbol_index
              /\ query_cache' = query_cache
              /\ SameAnswers(uri)]_vars

\* A file with references was closed: the file cache has lost it, the symbol
\* index and the graph hold it, and references still answers.
C28_ClosedFileStillAnswers ==
    /\ tasks[1].op = "did_close" /\ tasks[1].pc = "done" /\ tasks[1].uri = "a.py"
    /\ "a.py" \notin DOMAIN file_cache
    /\ "a.py" \in DOMAIN symbol_index.by_file
    /\ document_symbol(State, "a.py").kind = "result"
    /\ \E position \in LspPositions :
           \E answer \in references(State, "a.py", position, TRUE, FALSE) :
               answer.kind = "result" /\ Len(answer.value) >= 2

----------------------------------------------------------------------------
(* C29 *)

\* The contents an editor sends.
ChangeTexts == EdgeTexts \cup {TextFoo}

\* The symbols a content defines, with their kinds; none if it does not parse.
Defined(text) ==
    IF text.parses THEN {<<Decls(text)[i][1], Decls(text)[i][2]>> : i \in DOMAIN Decls(text)}
    ELSE {}

NamesOf(text) == {d[1].name : d \in Defined(text)}

\* The entries of a document_symbol answer.
Listed(answer) == IF answer.kind = "result" THEN answer.value ELSE <<>>

\* The answer has one entry for each symbol of the content, and no other.
ListsExactly(answer, uri, text) ==
    /\ Len(Listed(answer)) = Cardinality(Defined(text))
    /\ {<<sym.name, sym.kind, sym.location>> : sym \in Range(Listed(answer))}
           = {<<d[1].name, d[2],
                <<[uri |-> uri, range |-> to_lsp_range(extract_range(MakeNode(d[1], d[2], uri)))]>>>> :
                  d \in Defined(text)}

\* did_open of the earlier content, then did_change to the later one.
OpenedThenChanged(uri, earlier, later) == did_change(did_open(State, uri, earlier), uri, later)

\* C29: after did_open of a file and then did_change of the file to a content
\* that defines a subset of the earlier symbols, document_symbol lists exactly
\* the symbols of the new content, and the graph has no node of the file for a
\* symbol that the earlier content alone defined.
C29_ChangeDropsRemovedSymbols ==
    Quiescent =>
        \A uri \in Uris, earlier \in ChangeTexts, later \in ChangeTexts :
            (uri # InvalidUri /\ can_parse(uri) /\ Defined(later) \subseteq Defined(earlier)) =>
                LET after == OpenedThenChanged(uri, earlier, later)
                IN /\ ListsExactly(document_symbol(after, uri), uri, later)
                   /\ \A id \in NodesOfPath(after.graph, uri) :
                          after.graph.nodes[id].name \notin NamesOf(earlier) \ NamesOf(later)

\* A file that is indexed already is opened with foo, bar and test_foo and
\* changed to foo and test_foo: bar was a node after the open, and
\* document_symbol lists two symbols after the change.
C29_ChangedToFewerSymbols ==
    /\ Quiescent
    /\ "a.py" \in DOMAIN symbol_index.by_file
    /\ NodesOfPath(graph, "a.py") # {}
    /\ LET opened == did_open(State, "a.py", TextCallers)
           after == OpenedThenChanged("a.py", TextCallers, TextFooTest)
       IN /\ \E id \in NodesOfPath(opened.graph, "a.py") : opened.graph.nodes[id].name = "bar"
          /\ Len(Listed(document_symbol(after, "a.py"))) = 2

----------------------------------------------------------------------------
(* C30 *)

\* SpecInvalidate: did_open and did_change of two source files, handled one at a
\* time, and the cache stores.
TwoFiles == {"a.py", "b.rs"}

NextInvalidate ==
    \/ \E uri \in TwoFiles : DidOpenParse(1, uri, TextFoo)
    \/ DidOpenIndex(1)
    \/ DidOpenLogged(1)
    \/ \E uri \in TwoFiles : DidChangePurge(1, uri, TextFoo)
    \/ DidChangeParse(1)
    \/ DidChangeIndex(1)
    \/ CacheStores

SpecInvalidate == Init /\ [][NextInvalidate]_vars

\* What invalidate_file(path) makes of the cache before.
Invalidated(before, after, path) ==
    /\ \A key \in DOMAIN before.definitions :
           IF key[1] = path
           THEN key \notin DOMAIN after.definitions
           ELSE key \in DOMAIN after.definitions
                /\ after.definitions[key] = before.definitions[key]
    /\ DOMAIN after.definitions \subseteq DOMAIN before.definitions
    /\ after.references = EmptyMap
    /\ after.call_hierarchies = <<>>
    /\ after.dependency_graphs = <<>>
    /\ after.ai_contexts = before.ai_contexts

C30_PurgeInvalidates ==
    [][\A uri \in TwoFiles :
          DidChangePurge(1, uri, TextFoo) => Invalidated(query_cache, query_cache', uri)]_vars

----------------------------------------------------------------------------
(* C31 *)

\* No entry of the list comes after a later one by (start_line, start_col).
Ascending(positions) ==
    \A i \in DOMAIN positions, j \in DOMAIN positions :
        i < j => ~PositionAfter(positions[i], positions[j])

\* C31: after any sequence of add_file, remove_file and clear, the list
\* by_position[p] of every path p is sorted ascending by (start_line, start_col).
C31_PositionsAscending ==
    \A p \in DOMAIN symbol_index.by_position : Ascending(symbol_index.by_position[p])

\* add_file has sorted a file whose class starts before its function: the ids
\* of by_file are in the order of the FileInfo, those of by_position are not.
C31_SortedOutOfOrderFile ==
    \E p \in DOMAIN symbol_index.by_position :
        /\ Len(symbol_index.by_position[p]) = 2
        /\ p \in DOMAIN symbol_index.by_file
        /\ symbol_index.by_file[p]
               # [i \in DOMAIN symbol_index.by_position[p] |-> symbol_index.by_position[p][i][2]]

----------------------------------------------------------------------------
(* C32 *)

\* The (source, target, edge_type) tuples of a list of edges.
Tuples(edges) == {<<e.source, e.target, e.edge_type>> : e \in Range(edges)}

\* C32: for every node and every graph, the tuples that get_connected_edges
\* returns for Both are those it returns for Outgoing together with those it
\* returns for Incoming.
C32_BothIsOutgoingAndIncoming ==
    \A n \in 1..MaxNodeId :
        Tuples(get_connected_edges(graph, n, "Both"))
            = Tuples(get_connected_edges(graph, n, "Outgoing"))
                  \cup Tuples(get_connected_edges(graph, n, "Incoming"))

\* A node with an edge to itself, an edge that only leaves it and an edge that
\* only reaches it: Both returns all three, the edge to itself more than once.
C32_BothWaysConnected ==
    \E n \in DOMAIN graph.nodes :
        LET outgoing == Tuples(get_connected_edges(graph, n, "Outgoing"))
            incoming == Tuples(get_connected_edges(graph, n, "Incoming"))
            both == get_connected_edges(graph, n, "Both")
        IN /\ <<n, n, "Calls">> \in Tuples(both)
           /\ outgoing \ incoming # {}
           /\ incoming \ outgoing # {}
           /\ Len(both) > Cardinality(Tuples(both))

----------------------------------------------------------------------------
(* C33 *)

\* The FileInfo values whose lists hold at most one id each of the first two ids.
IdLists == {<<>>, <<1>>, <<2>>}

FileInfos == {[functions |-> f, classes |-> c, traits |-> t] : f \in IdLists, c \in IdLists, t \in IdLists}

\* The id stands at most once in the list.
AtMostOnce(ids, id) == Cardinality({i \in DOMAIN ids : ids[i] = id}) <= 1

\* by_file[path] and by_position[path] hold each id at most once.
ListedOnce(idx, path) ==
    /\ \A id \in 1..MaxNodeId : AtMostOnce(idx.by_file[path], id)
    /\ \A id \in 1..MaxNodeId :
           AtMostOnce([i \in DOMAIN idx.by_position[path] |-> idx.by_position[path][i][2]], id)

\* C33: after add_file(path, file_info, graph), by_file[path] and
\* by_position[path] contain each node id at most once, also when the same id
\* is listed in more than one of the functions, classes and traits.
C33_EachIdOnce ==
    \A file_info \in FileInfos :
        ListedOnce(add_file(symbol_index, "a.py", file_info, graph), "a.py")

\* The same of a FileInfo whose three lists share no id.
C33_EachIdOnceOfDisjointLists ==
    \A file_info \in FileInfos :
        Len(all_node_ids(file_info)) = Cardinality(FileInfoIds(file_info)) =>
            ListedOnce(add_file(symbol_index, "a.py", file_info, graph), "a.py")

----------------------------------------------------------------------------
(* C34 *)

\* SpecEvents: the watcher task alone, with the events notify sends it.  The
\* runtime keeps scheduling the spawned task.
WatcherStep ==
    \/ WatcherRecv
    \/ \E read \in Reads : HandleFileChange(read)
    \/ HandleFileRemove

NextEvents ==
    \/ \E event \in Events : WatcherNotify(event)
    \/ WatcherRecv
    \/ \E read \in Reads : HandleFileChange(read)
    \/ HandleFileRemove

SpecEvents == Init /\ [][NextEvents]_vars /\ WF_vars(WatcherStep)

\* The paths of the events sent, in the order sent: an event of another kind
\* than create, modify and remove has none to process.
RECURSIVE PathsSent(_)
PathsSent(sent) ==
    IF sent = <<>> THEN <<>>
    ELSE (IF Head(sent).kind = "Other" THEN <<>> ELSE Head(sent).paths) \o PathsSent(Tail(sent))

\* The paths the watcher has gone through, and those that failed.
PathsHandled == [i \in DOMAIN tasks[Watcher].handled |-> tasks[Watcher].handled[i][1]]

PathsFailed ==
    LET failed == SelectSeq(tasks[Watcher].handled, LAMBDA h : h[2] = "failed")
    IN [i \in DOMAIN failed |-> failed[i][1]]

\* The watcher goes through the paths in the order sent and logs the failures.
InOrderAndLogged ==
    /\ Len(PathsHandled) <= Len(PathsSent(tasks[Watcher].sent))
    /\ PathsHandled = SubSeq(PathsSent(tasks[Watcher].sent), 1, Len(PathsHandled))
    /\ tasks[Watcher].log = PathsFailed

\* Every path sent has been gone through.
CaughtUp == PathsHandled = PathsSent(tasks[Watcher].sent)

\* C34: a failure while the watcher processes one path, a read error or a parse
\* error, is logged and does not stop the watcher: the remaining paths of the
\* event and every later event are still processed, in the order the events
\* were sent.
C34_FailureDoesNotStopWatcher == [](InOrderAndLogged) /\ []<>CaughtUp

\* The first path of an event failed, and the watcher went on to process the
\* second path of the event and the path of the next event.
C34_ProcessedAfterFailure ==
    /\ Len(tasks[Watcher].sent) = 2
    /\ Len(tasks[Watcher].handled) >= 3
    /\ tasks[Watcher].handled[1][2] = "failed"
    /\ tasks[Watcher].handled[2][2] = "done"
    /\ tasks[Watcher].handled[3][2] = "done"
    /\ tasks[Watcher].log = <<"a.py">>
    /\ CaughtUp

----------------------------------------------------------------------------
(* C35 *)

\* The capacities a cache is built with, and the keys it is asked about.
MaxCapacity == 3

Depths == {1, 2}

CacheNodeIds == {1, 2, 3}

\* SpecLru: a cache of any capacity from 1 to MaxCapacity, and the set and get
\* operations of its three LRU sub-caches.
InitLru ==
    /\ graph = NewGraph
    /\ lock = FreeLock
    /\ symbol_index = NewIndex
    /\ file_cache = EmptyMap
    /\ query_cache \in {QueryCacheNew(capacity) : capacity \in 1..MaxCapacity}
    /\ tasks = [t \in Tasks \cup {Watcher} |-> IF t = Watcher THEN IdleWatcher ELSE IdleTask]

StoreCallHierarchy(node_id) ==
    /\ query_cache' = set_call_hierarchy(query_cache, node_id, [incoming |-> <<>>, outgoing |-> <<>>])
    /\ UNCHANGED <<graph, lock, symbol_index, file_cache, tasks>>

FetchCallHierarchy(node_id) ==
    /\ query_cache' = get_call_hierarchy(query_cache, node_id)
    /\ UNCHANGED <<graph, lock, symbol_index, file_cache, tasks>>

StoreDependencyGraph(path, depth) ==
    /\ query_cache' = set_dependency_graph(query_cache, path, depth, [nodes |-> <<>>, edges |-> <<>>])
    /\ UNCHANGED <<graph, lock, symbol_index, file_cache, tasks>>

FetchDependencyGraph(path, depth) ==
    /\ query_cache' = get_dependency_graph(query_cache, path, depth)
    /\ UNCHANGED <<graph, lock, symbol_index, file_cache, tasks>>

StoreAiContext(node_id, context_type) ==
    /\ query_cache' = set_ai_context(query_cache, node_id, context_type,
                                     [primary_code |-> "", related_symbols |-> <<>>])
    /\ UNCHANGED <<graph, lock, symbol_index, file_cache, tasks>>

FetchAiContext(node_id, context_type) ==
    /\ query_cache' = get_ai_context(query_cache, node_id, context_type)
    /\ UNCHANGED <<graph, lock, symbol_index, file_cache, tasks>>

NextLru ==
    \/ \E node_id \in CacheNodeIds : StoreCallHierarchy(node_id)
    \/ \E node_id \in CacheNodeIds : FetchCallHierarchy(node_id)
    \/ \E path \in TwoFiles, depth \in Depths : StoreDependencyGraph(path, depth)
    \/ \E path \in TwoFiles, depth \in Depths : FetchDependencyGraph(path, depth)
    \/ \E node_id \in CacheNodeIds : StoreAiContext(node_id, "explain")
    \/ \E node_id \in CacheNodeIds : FetchAiContext(node_id, "explain")

SpecLru == InitLru /\ [][NextLru]_vars

\* The keys of an LRU sub-cache, the most recently used first.
KeysOf(lru) == [i \in DOMAIN lru |-> lru[i][1]]

\* A store of a new key into a full sub-cache leaves the keys it held but the
\* one used least recently, behind the new key.
EvictsLeastRecent(before, after, cap) ==
    (Len(before) = cap /\ KeysOf(after)[1] \notin Range(KeysOf(before))) =>
        KeysOf(after) = <<KeysOf(after)[1]>> \o SubSeq(KeysOf(before), 1, cap - 1)

\* C35: for a QueryCache built with capacity N >= 1, after any sequence of set
\* and get operations the call hierarchies and the AI contexts each hold at
\* most N entries and the dependency graphs hold at most N / 2 entries.
C35_SubCachesWithinCapacity ==
    /\ Len(query_cache.call_hierarchies) <= query_cache.capacity
    /\ Len(query_cache.ai_contexts) <= query_cache.capacity
    /\ 2 * Len(query_cache.dependency_graphs) <= query_cache.capacity

\* The sub-caches hold at most as many entries as the caps they were built with.
C35_SubCachesWithinCaps ==
    /\ Len(query_cache.call_hierarchies) <= query_cache.capacity
    /\ Len(query_cache.ai_contexts) <= query_cache.capacity
    /\ Len(query_cache.dependency_graphs) <= query_cache.dependency_capacity

\* Storing a new key into a full sub-cache evicts the least recently used key.
C35_StoreEvictsLeastRecentlyUsed ==
    [][/\ (\E node_id \in CacheNodeIds : StoreCallHierarchy(node_id)) =>
              EvictsLeastRecent(query_cache.call_hierarchies, query_cache'.call_hierarchies,
                                query_cache.capacity)
       /\ (\E path \in TwoFiles, depth \in Depths : StoreDependencyGraph(path, depth)) =>
              EvictsLeastRecent(query_cache.dependency_graphs, query_cache'.dependency_graphs,
                                query_cache.dependency_capacity)
       /\ (\E node_id \in CacheNodeIds : StoreAiContext(node_id, "explain")) =>
              EvictsLeastRecent(query_cache.ai_contexts, query_cache'.ai_contexts,
                                query_cache.capacity)]_vars

----------------------------------------------------------------------------
(* C36 *)

\* Paths of every extension the frontends parse, of another one and of none.
SourcePaths == Paths \cup {"c.ts", "d.tsx", "e.js", "f.jsx", "g.go", "Makefile"}

\* The language the dispatch rule gives an extension.
LanguageOfExtension(ext) ==
    CASE ext = "py" -> "python"
      [] ext = "rs" -> "rust"
      [] ext \in {"ts", "tsx"} -> "typescript"
      [] ext \in {"js", "jsx"} -> "javascript"
      [] ext = "go" -> "go"
      [] OTHER -> NoLanguage

\* C36: for every path, language_for_path is defined exactly when
\* parser_for_path returns a frontend, and get_parser of that language is the
\* same frontend: .py gives python, .rs rust, .ts and .tsx typescript, .js and
\* .jsx javascript, served by the typescript frontend, .go go, and any other
\* extension none.
C36_LanguageMatchesParser ==
    \A p \in SourcePaths \cup DOMAIN symbol_index.by_file :
        /\ (language_for_path(p) # NoLanguage) <=> (parser_for_path(p) # NoParser)
        /\ language_for_path(p) # NoLanguage => get_parser(language_for_path(p)) = parser_for_path(p)
        /\ language_for_path(p) = LanguageOfExtension(Extension(p))
        /\ Extension(p) \in {"js", "jsx"} => parser_for_path(p) = "typescript"

\* The server has indexed a rust file with the frontend of its language, and a
\* javascript path is served by the typescript frontend.
C36_IndexedByLanguage ==
    /\ "b.rs" \in DOMAIN symbol_index.by_file
    /\ language_for_path("b.rs") = "rust" /\ get_parser("rust") = parser_for_path("b.rs")
    /\ language_for_path("e.js") = "javascript" /\ parser_for_path("e.js") = "typescript"
    /\ language_for_path("n.txt") = NoLanguage

----------------------------------------------------------------------------
(* The graph lock as tokio's RwLock serves it: in FIFO order *)

\* An acquisition that waits: the task and the access it asks for.
Waiter(t, mode) == [task |-> t, mode |-> mode]

\* The access can be given beside the guards that are held.
Compatible(l, mode) ==
    IF mode = "write" THEN l.writer = NoTask /\ l.readers = {} ELSE l.writer = NoTask

Granted(l, w) ==
    IF w.mode = "write" THEN [l EXCEPT !.writer = w.task]
    ELSE [l EXCEPT !.readers = @ \cup {w.task}]

\* The lock serves the waiters at the head of the queue as far as it can.
RECURSIVE wake(_)
wake(l) ==
    IF l.queue # <<>> /\ Compatible(l, Head(l.queue).mode)
    THEN wake(Granted([l EXCEPT !.queue = Tail(@)], Head(l.queue)))
    ELSE l

\* graph.read().await and graph.write().await: given at once when nobody waits
\* and the access is compatible, else queued behind the waiters.
acquire(l, t, mode) ==
    IF l.queue = <<>> /\ Compatible(l, mode) THEN Granted(l, Waiter(t, mode))
    ELSE [l EXCEPT !.queue = Append(@, Waiter(t, mode))]

\* A write guard drops; the read guard of a task drops.
release_write(l) == wake([l EXCEPT !.writer = NoTask])

release_read(l, t) == wake([l EXCEPT !.readers = @ \ {t}])

\* The task waits in the queue of the lock.
Waiting(t) == \E i \in DOMAIN lock.queue : lock.queue[i].task = t

HoldsWrite(t) == lock.writer = t

\* The task holds shared access and waits for no further one.
HoldsRead(t) == t \in lock.readers /\ ~Waiting(t)

\* did_open: graph.write().await
FairOpen(t, uri, text) ==
    /\ Free(t)
    /\ uri # InvalidUri /\ can_parse(uri)
    /\ HasRoom(graph, text)
    /\ lock' = acquire(lock, t, "write")
    /\ tasks' = [tasks EXCEPT ![t] = Begin("did_open", "fair_open", uri, text)]
    /\ UNCHANGED <<graph, symbol_index, file_cache, query_cache>>

\* did_open under the write guard: parse, add_file, file_cache.insert, the log
\* message; the guard drops.
FairOpenRun(t) ==
    /\ tasks[t].pc = "fair_open" /\ HoldsWrite(t)
    /\ \E r \in {parse_source(tasks[t].text, tasks[t].uri, graph)} :
           /\ graph' = r.graph
           /\ symbol_index' = IF r.ok
                              THEN add_file(symbol_index, tasks[t].uri, r.file_info, r.graph)
                              ELSE symbol_index
           /\ file_cache' = IF r.ok THEN MapPut(file_cache, tasks[t].uri, r.file_info)
                            ELSE file_cache
    /\ lock' = release_write(lock)
    /\ tasks' = [tasks EXCEPT ![t] = Done(@, tasks[t].text.parses)]
    /\ UNCHANGED query_cache

\* did_change and did_save: remove_file_from_graph asks for the write lock
FairChange(t, op, uri, text) ==
    /\ Free(t)
    /\ uri # InvalidUri /\ can_parse(uri)
    /\ HasRoom(graph, text)
    /\ lock' = acquire(lock, t, "write")
    /\ tasks' = [tasks EXCEPT ![t] = Begin(op, "fair_purge", uri, text)]
    /\ UNCHANGED <<graph, symbol_index, file_cache, query_cache>>

\* remove_file_from_graph under its guard, which drops on return; the handler
\* asks for the write lock again.
FairPurge(t) ==
    /\ tasks[t].pc = "fair_purge" /\ HoldsWrite(t)
    /\ LET r == remove_file_from_graph(graph, query_cache, symbol_index, tasks[t].uri)
       IN /\ graph' = r.graph
          /\ query_cache' = r.query_cache
          /\ symbol_index' = r.symbol_index
    /\ lock' = acquire(release_write(lock), t, "write")
    /\ tasks' = [tasks EXCEPT ![t].pc = "fair_reparse"]
    /\ UNCHANGED file_cache

\* parse_source, add_file and file_cache.insert under the second guard
FairReparse(t) ==
    /\ tasks[t].pc = "fair_reparse" /\ HoldsWrite(t)
    /\ \E r \in {parse_source(tasks[t].text, tasks[t].uri, graph)} :
           /\ graph' = r.graph
           /\ symbol_index' = IF r.ok
                              THEN add_file(symbol_index, tasks[t].uri, r.file_info, r.graph)
                              ELSE symbol_index
           /\ file_cache' = IF r.ok THEN MapPut(file_cache, tasks[t].uri, r.file_info)
                            ELSE file_cache
    /\ lock' = release_write(lock)
    /\ tasks' = [tasks EXCEPT ![t] = Done(@, tasks[t].text.parses)]
    /\ UNCHANGED query_cache

\* reindexWorkspace: graph.write().await
FairReindex(t) ==
    /\ Free(t)
    /\ lock' = acquire(lock, t, "write")
    /\ tasks' = [tasks EXCEPT ![t] = Begin("reindex", "fair_reindex", NoUri, BadText)]
    /\ UNCHANGED <<graph, symbol_index, file_cache, query_cache>>

\* *graph = CodeGraph::in_memory(); the guard drops at the end of the block
FairReindexReset(t) ==
    /\ tasks[t].pc = "fair_reindex" /\ HoldsWrite(t)
    /\ graph' = NewGraph
    /\ lock' = release_write(lock)
    /\ tasks' = [tasks EXCEPT ![t].pc = "reindex_index"]
    /\ UNCHANGED <<symbol_index, file_cache, query_cache>>

\* handle_get_ai_context: let graph = self.graph.read().await
FairAiBegin(t, uri) ==
    /\ Free(t)
    /\ uri # InvalidUri
    /\ lock' = acquire(lock, t, "read")
    /\ tasks' = [tasks EXCEPT ![t] = Begin("get_ai_context", "fair_lookup", uri, BadText)]
    /\ UNCHANGED <<graph, symbol_index, file_cache, query_cache>>

\* Under the read guard: the node at the position, or an error answer; then
\* get_node_source_code(node_id), which asks for the read lock itself.
FairAiLookup(t, position, context_type) ==
    /\ tasks[t].pc = "fair_lookup" /\ HoldsRead(t)
    /\ \E hit \in find_node_at_position(State, tasks[t].uri, position, FALSE) :
           IF hit.kind = "some" /\ hit.id \in DOMAIN graph.nodes
           THEN /\ lock' = acquire(lock, t, "read")
                /\ tasks' = [tasks EXCEPT
                       ![t].pc = "fair_source",
                       ![t].ai = [NoAiLocals EXCEPT
                                     !.node_id = hit.id,
                                     !.budget = new(DefaultMaxTokens),
                                     !.candidates = related_candidates(graph, hit.id, context_type)]]
           ELSE /\ lock' = release_read(lock, t)
                /\ tasks' = [tasks EXCEPT ![t] = Done(@, FALSE)]
    /\ UNCHANGED <<graph, symbol_index, file_cache, query_cache>>

\* What follows a get_node_source_code: the loop of get_*_context breaks
\* without budget or candidates, else create_related_symbol calls
\* get_node_source_code for the next candidate.
AfterSource(t, ai) ==
    IF ai.candidates # <<>> /\ has_budget(ai.budget)
    THEN /\ lock' = acquire(lock, t, "read")
         /\ tasks' = [tasks EXCEPT ![t].pc = "fair_related", ![t].ai = ai]
    ELSE /\ lock' = lock
         /\ tasks' = [tasks EXCEPT ![t].pc = "fair_respond", ![t].ai = [ai EXCEPT !.candidates = <<>>]]

\* get_node_source_code of the primary node returns and its guard drops: the
\* budget consumes the tokens of the code.
FairAiSource(t, source) ==
    /\ tasks[t].pc = "fair_source" /\ HoldsRead(t)
    /\ LET ai == tasks[t].ai
           len == IF source = <<>> THEN SourceNotAvailableLen ELSE source[1]
       IN AfterSource(t, [ai EXCEPT !.budget = consume(@, estimate_tokens(len), FALSE).budget])
    /\ UNCHANGED <<graph, symbol_index, file_cache, query_cache>>

\* get_node_source_code of a related node returns and its guard drops
FairAiRelated(t, source) ==
    /\ tasks[t].pc = "fair_related" /\ HoldsRead(t)
    /\ LET ai == tasks[t].ai
           r == consume(ai.budget, estimate_tokens(source[1]), FALSE)
       IN IF source = <<>>
          THEN AfterSource(t, [ai EXCEPT !.candidates = Tail(@)])
          ELSE AfterSource(t, [ai EXCEPT !.budget = r.budget,
                                         !.candidates = Tail(@),
                                         !.related_symbols =
                                             IF r.taken
                                             THEN Append(@, [symbol |-> Head(ai.candidates),
                                                             code_len |-> source[1]])
                                             ELSE @])
    /\ UNCHANGED <<graph, symbol_index, file_cache, query_cache>>

\* The response; the read guard of the handler drops.
FairAiRespond(t) ==
    /\ tasks[t].pc = "fair_respond" /\ HoldsRead(t)
    /\ lock' = release_read(lock, t)
    /\ tasks' = [tasks EXCEPT ![t] = Done(@, TRUE)]
    /\ UNCHANGED <<graph, symbol_index, file_cache, query_cache>>

FairTexts == {TextFooTest, BadText}

FairSources == {<<>>, <<8>>}

\* The steps of a handler after its first.
FairStep(t) ==
    \/ FairOpenRun(t)
    \/ FairPurge(t)
    \/ FairReparse(t)
    \/ FairReindexReset(t)
    \/ ReindexClearIndex(t)
    \/ ReindexClearCache(t)
    \/ \E context_type \in {"explain", "other"} :
           FairAiLookup(t, [line |-> 1, character |-> 4], context_type)
    \/ \E source \in FairSources : FairAiSource(t, source)
    \/ \E source \in FairSources : FairAiRelated(t, source)
    \/ FairAiRespond(t)

\* SpecFair: getAIContext requests and the requests that write the graph, about
\* one source file, handled concurrently under the FIFO lock; the runtime keeps
\* scheduling every handler that can take a step.
NextFair ==
    \/ \E t \in Tasks, text \in FairTexts : FairOpen(t, "a.py", text)
    \/ \E t \in Tasks : FairOpenRun(t)
    \/ \E t \in Tasks, op \in {"did_change", "did_save"}, text \in FairTexts :
           FairChange(t, op, "a.py", text)
    \/ \E t \in Tasks : FairPurge(t)
    \/ \E t \in Tasks : FairReparse(t)
    \/ \E t \in Tasks : FairReindex(t)
    \/ \E t \in Tasks : FairReindexReset(t)
    \/ \E t \in Tasks : ReindexClearIndex(t)
    \/ \E t \in Tasks : ReindexClearCache(t)
    \/ \E t \in Tasks : FairAiBegin(t, "a.py")
    \/ \E t \in Tasks, context_type \in {"explain", "other"} :
           FairAiLookup(t, [line |-> 1, character |-> 4], context_type)
    \/ \E t \in Tasks, source \in FairSources : FairAiSource(t, source)
    \/ \E t \in Tasks, source \in FairSources : FairAiRelated(t, source)
    \/ \E t \in Tasks : FairAiRespond(t)

SpecFair == Init /\ [][NextFair]_vars /\ \A t \in Tasks : WF_vars(FairStep(t))

----------------------------------------------------------------------------
(* C37 *)

\* The task runs a getAIContext request that has not returned.
AiPending(t) == tasks[t].op = "get_ai_context" /\ Running(t)

\* C37: every getAIContext request eventually returns, in every interleaving
\* with the did_open, did_change, did_save and reindexWorkspace requests that
\* wait for exclusive access to the graph, under a lock that serves its
\* waiters in FIFO order.
C37_AiContextReturns == \A t \in Tasks : AiPending(t) ~> Returned(t)

\* The handler, which holds shared access, never waits for a second shared
\* acquisition behind a writer that waits for the handler to release.
C37_NoReadBehindWaitingWriter ==
    \A t \in Tasks :
        ~(/\ t \in lock.readers
          /\ \E i \in DOMAIN lock.queue, j \in DOMAIN lock.queue :
                 /\ i < j
                 /\ lock.queue[i].mode = "write"
                 /\ lock.queue[j] = Waiter(t, "read"))

----------------------------------------------------------------------------
(* C38 *)

\* The graph and the symbol index agree on the path: no node and no key, or
\* the key lists the nodes of the path that are in the graph.
AgreeOn(g, idx, path) ==
    \/ NodesOfPath(g, path) = {} /\ path \notin DOMAIN idx.by_file
    \/ path \in DOMAIN idx.by_file /\ Range(idx.by_file[path]) = NodesOfPath(g, path)

\* A reindexWorkspace and a did_open of the path, given to two tasks of which
\* the second started while the first ran, have both completed.
ReindexAndOpenCompleted(path) ==
    \E t \in Tasks, u \in Tasks :
        /\ t # u
        /\ Returned(t) /\ tasks[t].op = "reindex"
        /\ Returned(u) /\ tasks[u].op = "did_open" /\ tasks[u].uri = path

\* C38: when reindexWorkspace runs concurrently with a did_open of a path, once
\* both have completed the graph and the symbol index agree on the path.
C38_ReindexAndOpenAgree ==
    \A path \in ParsePaths :
        ReindexAndOpenCompleted(path) => AgreeOn(graph, symbol_index, path)

----------------------------------------------------------------------------
(* C39 *)

\* C39: after any sequence of did_open, did_change, did_save and did_close,
\* failing parses included, every node id listed in a FileInfo of the file
\* cache exists in the graph.
C39_CachedFileInfoNodesExist ==
    Quiescent =>
        \A uri \in DOMAIN file_cache : FileInfoIds(file_cache[uri]) \subseteq DOMAIN graph.nodes

----------------------------------------------------------------------------
(* C40 *)

\* SpecFrame: did_open, did_change and did_save about two source files,
\* reindexWorkspace and the stores of definitions, handled concurrently.
NextFrame ==
    \/ \E t \in Tasks, uri \in TwoFiles : DidOpenParse(t, uri, TextFoo)
    \/ \E t \in Tasks : DidOpenIndex(t)
    \/ \E t \in Tasks : DidOpenLogged(t)
    \/ \E t \in Tasks, uri \in TwoFiles : DidChangePurge(t, uri, TextFoo)
    \/ \E t \in Tasks : DidChangeParse(t)
    \/ \E t \in Tasks : DidChangeIndex(t)
    \/ \E t \in Tasks, uri \in TwoFiles : DidSavePurge(t, uri, TextFoo)
    \/ \E t \in Tasks : DidSaveParse(t)
    \/ \E t \in Tasks : DidSaveIndex(t)
    \/ \E t \in Tasks : ReindexReset(t)
    \/ \E t \in Tasks : ReindexClearIndex(t)
    \/ \E t \in Tasks : ReindexClearCache(t)
    \/ \E node_id \in 1..MaxNodeId : SetDefinition(node_id)

SpecFrame == Init /\ [][NextFrame]_vars

\* What the program holds about one path: its nodes in the graph, its entries
\* of by_file and by_position, the ids of its nodes in by_name and by_type, and
\* the definition-cache entries keyed by it.
HeldAbout(g, idx, qc, path) ==
    LET ids == NodesOfPath(g, path)
        OfPath(list) == SelectSeq(list, LAMBDA id : id \in ids)
    IN [nodes |-> [id \in ids |-> g.nodes[id]],
        by_file |-> IF path \in DOMAIN idx.by_file THEN <<idx.by_file[path]>> ELSE <<>>,
        by_position |-> IF path \in DOMAIN idx.by_position
                        THEN <<idx.by_position[path]>> ELSE <<>>,
        by_name |-> {<<name, OfPath(idx.by_name[name])>> :
                        name \in {n \in DOMAIN idx.by_name : OfPath(idx.by_name[n]) # <<>>}},
        by_type |-> {<<type, OfPath(idx.by_type[type])>> :
                        type \in {n \in DOMAIN idx.by_type : OfPath(idx.by_type[n]) # <<>>}},
        definitions |-> [k \in {x \in DOMAIN qc.definitions : x[1] = path} |->
                            qc.definitions[k]]]

\* Task t's did_open, did_change or did_save of the path takes a step.
DeliveryStep(t, path) ==
    /\ tasks'[t] # tasks[t]
    /\ tasks'[t].op \in Deliveries
    /\ tasks'[t].uri = path

\* C40: a did_open, did_change or did_save of a path leaves unchanged what the
\* program holds about every other path.
C40_OtherPathsUnchanged ==
    [][\A t \in Tasks, path \in TwoFiles, other \in TwoFiles :
          DeliveryStep(t, path) /\ other # path =>
              HeldAbout(graph', symbol_index', query_cache', other) =
                  HeldAbout(graph, symbol_index, query_cache, other)]_vars

============================================================================
